---- MODULE Spec2Model ----
(***************************************************************************)
(* Price synchronization and benchmark computation of the portfolio        *)
(* tracker.  The repository holds the browser code (script.js) and several *)
(* revisions of the batch synchronization script (update-script.js and the *)
(* unnamed parts); every revision is a runnable program against the same   *)
(* document store, so each is modelled as a "script" a cycle may run.      *)
(*                                                                         *)
(* Numbers are JavaScript numbers restricted to exact rationals, NaN and   *)
(* the infinities; rounding of doubles is not modelled.  Strings that hold *)
(* dates are records of their numeric parts and their separator.           *)
(***************************************************************************)
EXTENDS Integers, Sequences, FiniteSets, TLC

VARIABLES db, run, isAdmin, resolved, sold, calls, page

vars == <<db, run, isAdmin, resolved, sold, calls, page>>

(***************************************************************************)
(* Bounds of the model.                                                    *)
(***************************************************************************)
\* The most keys push() makes for positions in one session of the page.
MaxPushes == 1

\* The most removes of deleteStock on their way to the store.
MaxDeletes == 1

\* The most trades the archive holds.
MaxTrades == 2

\* The most removes of clearAll on their way to the store.
MaxRemoves == 2

\* The most sign-ins of one session of the page.
MaxSignIns == 2

\* The most value events of investments one session of the page renders.
MaxRenders == 3

(***************************************************************************)
(* JavaScript values: numbers (exact rationals n/d), NaN, +-Infinity and   *)
(* undefined (a missing field).                                            *)
(***************************************************************************)
Undefined == [t |-> "undef", n |-> 0, d |-> 1]
NaN == [t |-> "nan", n |-> 0, d |-> 1]
Infinity(sign) == [t |-> "inf", n |-> sign, d |-> 1]

Abs(x) == IF x < 0 THEN -x ELSE x
Sign(x) == IF x < 0 THEN -1 ELSE 1

RECURSIVE GCD(_, _)
GCD(a, b) == IF b = 0 THEN a ELSE GCD(b, a % b)

Rat(n, d) ==
    LET g == GCD(Abs(n), Abs(d))
    IN  [t |-> "num", n |-> Sign(d) * (n \div g), d |-> Abs(d) \div g]

Num(n) == [t |-> "num", n |-> n, d |-> 1]

IsFinite(v) == v.t = "num"

\* ToNumber: undefined becomes NaN.
ToNumber(v) == IF v.t = "undef" THEN NaN ELSE v

JsNeg(a) ==
    LET x == ToNumber(a)
    IN  IF x.t = "nan" THEN NaN ELSE [x EXCEPT !.n = -x.n]

JsAdd(a, b) ==
    LET x == ToNumber(a)
        y == ToNumber(b)
    IN  IF x.t = "nan" \/ y.t = "nan" THEN NaN
        ELSE IF x.t = "inf" /\ y.t = "inf"
             THEN IF x.n = y.n THEN x ELSE NaN
        ELSE IF x.t = "inf" THEN x
        ELSE IF y.t = "inf" THEN y
        ELSE Rat(x.n * y.d + y.n * x.d, x.d * y.d)

JsSub(a, b) == JsAdd(a, JsNeg(b))

JsMul(a, b) ==
    LET x == ToNumber(a)
        y == ToNumber(b)
    IN  IF x.t = "nan" \/ y.t = "nan" THEN NaN
        ELSE IF x.t = "inf" \/ y.t = "inf"
             THEN IF x.n = 0 \/ y.n = 0 THEN NaN
                  ELSE Infinity(Sign(x.n) * Sign(y.n))
        ELSE Rat(x.n * y.n, x.d * y.d)

JsDiv(a, b) ==
    LET x == ToNumber(a)
        y == ToNumber(b)
    IN  IF x.t = "nan" \/ y.t = "nan" THEN NaN
        ELSE IF x.t = "inf"
             THEN IF y.t = "inf" THEN NaN ELSE Infinity(x.n * Sign(y.n))
        ELSE IF y.t = "inf" THEN Num(0)
        ELSE IF y.n = 0
             THEN IF x.n = 0 THEN NaN ELSE Infinity(Sign(x.n))
        ELSE Rat(x.n * y.d, x.d * y.n)

\* a > b; false when either side is NaN.
JsGt(a, b) ==
    LET x == ToNumber(a)
        y == ToNumber(b)
    IN  IF x.t = "nan" \/ y.t = "nan" THEN FALSE
        ELSE IF x.t = "inf" THEN x.n = 1 /\ ~(y.t = "inf" /\ y.n = 1)
        ELSE IF y.t = "inf" THEN y.n = -1
        ELSE x.n * y.d > y.n * x.d

\* Truthiness of a number or a missing field.
Truthy(v) == v.t = "inf" \/ (v.t = "num" /\ v.n # 0)

\* v || 0
OrZero(v) == IF Truthy(v) THEN v ELSE Num(0)

\* (pl / base) * 100
Pct(pl, base) == JsMul(JsDiv(pl, base), Num(100))

(***************************************************************************)
(* Dates.  A date string is the record of its three numeric parts in the   *)
(* order written, its separator and an optional prefix (the FIXED_ keys of *)
(* the inception cache); parts are written with two (four) digits.  A Date *)
(* object is a calendar day, or InvalidDate.  The batch job runs in UTC,   *)
(* so local and UTC calendar days coincide.                                *)
(***************************************************************************)
DS(a, b, c) == [pre |-> "", sep |-> "/", a |-> a, b |-> b, c |-> c]

NoDateStr == [pre |-> "", sep |-> "", a |-> 0, b |-> 0, c |-> 0]

InvalidDate == [y |-> 0, m |-> 0, d |-> 0]

IsLeap(y) == (y % 4 = 0 /\ y % 100 # 0) \/ y % 400 = 0

DaysIn(y, m) ==
    IF m = 2 THEN (IF IsLeap(y) THEN 29 ELSE 28)
    ELSE IF m \in {4, 6, 9, 11} THEN 30 ELSE 31

\* MakeDay of a year, a month 1..12 and a day 1..31: a day past the end of
\* the month runs over into the next month.
MakeDay(y, m, d) ==
    IF d <= DaysIn(y, m) THEN [y |-> y, m |-> m, d |-> d]
    ELSE IF m = 12 THEN [y |-> y + 1, m |-> 1, d |-> d - DaysIn(y, m)]
    ELSE [y |-> y, m |-> m + 1, d |-> d - DaysIn(y, m)]

\* new Date(dateStr.split('/').reverse().join('-')): a dd/mm/yyyy string
\* becomes the ISO string yyyy-mm-dd; a string without '/' is left as it is
\* and read by the engine's fallback parser, month first, then day, then year.
ParseDate(ds) ==
    IF ds.sep = "/"
    THEN IF ds.b \in 1..12 /\ ds.a \in 1..31 THEN MakeDay(ds.c, ds.b, ds.a)
         ELSE InvalidDate
    ELSE IF ds.sep = "-" /\ ds.pre = "" /\ ds.a \in 1..12 /\ ds.b \in 1..31
         THEN MakeDay(ds.c, ds.a, ds.b)
    ELSE InvalidDate

\* targetDate.setDate(targetDate.getDate() - 1)
PrevDay(dt) ==
    IF dt = InvalidDate THEN InvalidDate
    ELSE IF dt.d > 1 THEN [dt EXCEPT !.d = dt.d - 1]
    ELSE IF dt.m > 1 THEN [y |-> dt.y, m |-> dt.m - 1, d |-> DaysIn(dt.y, dt.m - 1)]
    ELSE [y |-> dt.y - 1, m |-> 12, d |-> 31]

\* toLocaleDateString('en-GB'): dd/mm/yyyy ("Invalid Date" has no parts).
FormatGB(dt) == IF dt = InvalidDate THEN NoDateStr ELSE DS(dt.d, dt.m, dt.y)

\* str.replace(/\//g, '-')
Dashed(ds) == IF ds.sep = "/" THEN [ds EXCEPT !.sep = "-"] ELSE ds

\* "FIXED_" + str
FixedKey(ds) == [ds EXCEPT !.pre = "FIXED_"]

\* The time value of a Date, for comparisons (NaN for an invalid date).
TimeValue(dt) == IF dt = InvalidDate THEN NaN ELSE Num(dt.y * 10000 + dt.m * 100 + dt.d)

(***************************************************************************)
(* Data of the model: positions, archived trades, provider answers.        *)
(***************************************************************************)
Symbols == {"AAPL", "MSFT", "SPY"}

TradeIds == {1, 2}

Runs == {1, 2}

\* Prices a quote may carry and closes a daily series may carry.
PriceValues == {160}

CloseValues == {145, 150}

EmptyMap == [x \in {} |-> Undefined]

\* A position as addInvestment stores it (symbol, shares, price, date).
PosAAPL == [symbol |-> "AAPL", shares |-> Num(10), price |-> Num(150), date |-> DS(6, 10, 2025)]

\* An earlier lot of the same symbol.
PosEarly == [symbol |-> "AAPL", shares |-> Num(5), price |-> Num(140), date |-> DS(1, 10, 2025)]

\* A record of the investments node that lacks its shares field (the node is
\* also edited outside the application).
PosNoShares == [symbol |-> "AAPL", shares |-> Undefined, price |-> Num(150), date |-> DS(6, 10, 2025)]

\* What getInputValues can return for a filled form.
InputValues == {PosAAPL, PosEarly}

InitInvestments ==
    { EmptyMap,
      (1 :> PosAAPL),
      (1 :> PosAAPL) @@ (2 :> PosEarly),
      (1 :> PosNoShares) }

InitRealized ==
    { EmptyMap,
      (1 :> [pl |-> Num(200)]) @@ (2 :> [pl |-> Undefined]) }

\* MSFT is a symbol of a position closed since.
InitPriceCaches == { EmptyMap, ("AAPL" :> Num(155)) @@ ("MSFT" :> Num(290)) }

\* The configured anchor keys of the inception cache.
Key0510 == [pre |-> "", sep |-> "-", a |-> 5, b |-> 10, c |-> 2025]

Key1407 == [pre |-> "", sep |-> "-", a |-> 14, b |-> 7, c |-> 2025]

Key1908 == [pre |-> "", sep |-> "-", a |-> 19, b |-> 8, c |-> 2025]

FixedStartDate == DS(14, 7, 2025)

\* The inceptionCache document: keyed entries, and the fields of the
\* single-entry layout: date with spyStartPrice (first script of part_001)
\* or with price (its second script).
EmptyInception ==
    [keyed |-> EmptyMap, date |-> NoDateStr, spyStartPrice |-> Undefined,
     price |-> Undefined]

\* Keys uploaded by hand before the first cycle.
UploadedInception ==
    [EmptyInception EXCEPT
        !.keyed = (Key0510 :> Num(142)) @@ (Key1908 :> Num(140)) @@ (Key1407 :> Num(140))]

InitInceptionCaches == { EmptyInception, UploadedInception }

Zero == Num(0)

ZeroPair == [our |-> Zero, spy |-> Zero]

\* The benchmarkCache document: absent, {ourReturn, spyReturn} or
\* {current: {our, spy}, allTime: {our, spy}}.
NoBenchmark ==
    [shape |-> "none", ourReturn |-> Zero, spyReturn |-> Zero,
     current |-> ZeroPair, allTime |-> ZeroPair]

SingleBenchmark(our, spy) ==
    [NoBenchmark EXCEPT !.shape = "single", !.ourReturn = our, !.spyReturn = spy]

AnchorBenchmark(cur, all) ==
    [NoBenchmark EXCEPT !.shape = "anchors", !.current = cur, !.allTime = all]

\* Answers of the quote provider: a transport error, a non-success status, or
\* a payload whose price field is missing, 0 or a price.
QuoteResponses ==
    { [kind |-> "throw", price |-> Undefined], [kind |-> "notok", price |-> Undefined] }
    \cup { [kind |-> "ok", price |-> p] : p \in {Undefined, Zero} \cup { Num(x) : x \in PriceValues } }

\* Answers of the daily-series provider to one request: a transport error, a
\* non-success status, a rate-limit note, or a series that holds a close for
\* the requested day (close) or does not (Undefined).
NoClose == [kind |-> "series", close |-> Undefined]

MissResponses ==
    { [kind |-> k, close |-> Undefined] : k \in {"throw", "notok", "note", "series"} }

CloseResponses == { [kind |-> "series", close |-> Num(c)] : c \in CloseValues }

Rep(x, n) == [j \in 1..n |-> x]

\* How many answers without a close come first: none, one, two (the retries
\* of one day), all but one day of the window, the whole window.
MissCounts == {0, 1, 2, 6, 7}

\* The answers to the successive requests of one lookup: some answers of one
\* kind without a close, then possibly one with a close; requests beyond the
\* listed ones find no close.
HistSequences ==
    { Rep(m, n) \o t : m \in MissResponses, n \in MissCounts,
                       t \in {<<>>} \cup { <<c>> : c \in CloseResponses } }

(***************************************************************************)
(* The revisions of the synchronization script.                            *)
(***************************************************************************)
Scripts ==
    { "update1", "update2", "part000", "part001a", "part001b", "part002", "part003",
      "part004", "part005", "part006", "part007", "part008", "part009" }

\* Load the old priceCache and update it in place.
MergeScripts == {"part004", "part005"}

\* priceCache[symbol] = await fetch...(symbol): a failed fetch stores 0.
StoreZeroScripts == {"update1", "update2", "part001a", "part006"}

\* await Promise.all(symbols.map(...)): all quotes in flight at once.
ConcurrentScripts == {"part001a", "part001b", "part002", "part003", "part005", "part006", "part009"}

\* Batches of batchSize quotes.
BatchScripts == {"part000", "part007"}

\* Scripts that only update prices.
PriceOnlyScripts == {"part000", "part007"}

\* Scripts that read realized (and inceptionCache) with investments.
ReadRealizedScripts == {"part002", "part003", "part006", "part009"}

ReadInceptionFirstScripts == {"part002", "part003", "part009"}

\* The nodes main reads at its start: one read, or the reads it sends
\* together and awaits with Promise.all.
FirstReads(s) ==
    IF s \in ReadInceptionFirstScripts THEN {"investments", "realized", "inceptionCache"}
    ELSE IF s \in ReadRealizedScripts THEN {"investments", "realized"}
    ELSE {"investments"}

\* What a script does when investments is empty.
NoInvestmentsMode(s) ==
    IF s = "part002" THEN "wipe"
    ELSE IF s \in {"part003", "part009"} THEN "spy"
    ELSE "exit"

\* The settings a script is started with: the store credentials (the service
\* account), the store URL and the API key of the quote provider.
GoodConfig == [credentials |-> "ok", databaseURL |-> TRUE, apiKey |-> TRUE]

Configs == [credentials : {"ok", "missing", "invalid"}, databaseURL : BOOLEAN,
            apiKey : BOOLEAN]

\* Whether the start of a script throws on its settings.  JSON.parse throws on
\* credentials that are missing or are no JSON, and the database client has no
\* database to open without a URL; only part_007 looks at the API key
\* (if (!databaseURL || !apiKey) throw).
ConfigThrows(s, cfg) ==
    \/ cfg.credentials # "ok"
    \/ ~cfg.databaseURL
    \/ s = "part007" /\ ~cfg.apiKey

\* Whether a script returns from its cycle with neither process.exit nor
\* app().delete(): the open database connection keeps the process alive and
\* the process has no exit code.  part_000 returns so when there is no
\* investment; the second script of update-script.js on each of its paths.
StaysAlive(s, empty) == s = "update2" \/ (s = "part000" /\ empty)

\* Whether the last statement of a cycle throws: the first script of
\* update-script.js ends with return db.app().delete(), and the app of a
\* Database of firebase-admin is a property, not a function; main's catch
\* turns the TypeError into process.exit(1).
ReturnThrows(s) == s = "update1"

batchSize == 5

\* await sleep(1000) between batches
pauseMs == 1000

\* await sleep(1000) before fetchWithRetry tries again
retryDelayMs == 1000

retries == 3

LookbackDays == 7

INITIAL_CAPITAL == 160

TOTAL_CAPITAL == 172

(***************************************************************************)
(* Pure parts of a cycle.                                                  *)
(***************************************************************************)
Min(S) == CHOOSE x \in S : \A y \in S : x <= y

\* Object.values / Object.keys order: ascending keys.
RECURSIVE IdSeq(_)
IdSeq(S) == IF S = {} THEN <<>> ELSE <<Min(S)>> \o IdSeq(S \ {Min(S)})

Range(q) == { q[i] : i \in 1..Len(q) }

RECURSIVE Distinct(_)
Distinct(q) ==
    IF q = <<>> THEN <<>>
    ELSE LET front == Distinct(SubSeq(q, 1, Len(q) - 1))
             last == q[Len(q)]
         IN  IF last \in Range(front) THEN front ELSE Append(front, last)

\* [...new Set(Object.values(investments).map(inv => inv.symbol))], then
\* if (!symbols.includes('SPY')) symbols.push('SPY') where the script has it.
SymbolsOf(s, investments) ==
    LET ids == IdSeq(DOMAIN investments)
        syms == Distinct([i \in 1..Len(ids) |-> investments[ids[i]].symbol])
    IN  IF s \in PriceOnlyScripts \/ "SPY" \in Range(syms) THEN syms
        ELSE Append(syms, "SPY")

\* A price update that requests all waiting symbols together.
GroupSizeAll(s, n) == n

\* How many of the waiting symbols are requested together.
GroupSize(s, n) ==
    IF s \in ConcurrentScripts THEN n
    ELSE IF s \in BatchScripts THEN (IF n < batchSize THEN n ELSE batchSize)
    ELSE IF n = 0 THEN 0 ELSE 1

\* fetchLivePrice / fetchFinnhubPrice: 0 on a transport error or a
\* non-success status, else (price || 0).
fetchLivePrice(resp) ==
    IF resp.kind # "ok" THEN Zero ELSE OrZero(resp.price)

\* A merge that stores whatever the fetch returned, a failed fetch's 0 included.
KeepsPriceAnyValue(s, price) == TRUE

\* Whether a script keeps the fetched value in its priceCache object.
KeepsPrice(s, price) ==
    IF s \in StoreZeroScripts THEN TRUE
    ELSE IF s = "part008" THEN Truthy(price)
    ELSE JsGt(price, Zero)

Put(map, k, v) == [x \in DOMAIN map \cup {k} |-> IF x = k THEN v ELSE map[x]]

\* priceCache[symbol], undefined when absent.
Get(map, k) == IF k \in DOMAIN map THEN map[k] ELSE Undefined

\* totalInvested += inv.shares * inv.price over Object.values(investments)
RECURSIVE SumInvested(_, _)
SumInvested(investments, ids) ==
    IF ids = <<>> THEN Zero
    ELSE LET inv == investments[ids[Len(ids)]]
         IN  JsAdd(SumInvested(investments, SubSeq(ids, 1, Len(ids) - 1)),
                   JsMul(inv.shares, inv.price))

\* A current value that prices every position at its cost.
SumValueAtCost(investments, priceCache, ids) == SumInvested(investments, ids)

\* totalValue += inv.shares * (priceCache[inv.symbol] || 0)
RECURSIVE SumValue(_, _, _)
SumValue(investments, priceCache, ids) ==
    IF ids = <<>> THEN Zero
    ELSE LET inv == investments[ids[Len(ids)]]
         IN  JsAdd(SumValue(investments, priceCache, SubSeq(ids, 1, Len(ids) - 1)),
                   JsMul(inv.shares, OrZero(Get(priceCache, inv.symbol))))

\* Object.values(realized).reduce((sum, trade) => sum + (trade.pl || 0), 0)
RECURSIVE SumRealized(_, _)
SumRealized(realized, ids) ==
    IF ids = <<>> THEN Zero
    ELSE JsAdd(SumRealized(realized, SubSeq(ids, 1, Len(ids) - 1)),
               OrZero(realized[ids[Len(ids)]].pl))

totalInvested(investments) == SumInvested(investments, IdSeq(DOMAIN investments))

totalValue(investments, priceCache) ==
    SumValue(investments, priceCache, IdSeq(DOMAIN investments))

totalRealizedPL(realized) == SumRealized(realized, IdSeq(DOMAIN realized))

currentUnrealizedPL(investments, priceCache) ==
    JsSub(totalValue(investments, priceCache), totalInvested(investments))

allTimeTotalPL(investments, realized, priceCache) ==
    JsAdd(totalRealizedPL(realized), currentUnrealizedPL(investments, priceCache))

\* The earliest open date: reduce((a, b) => a < b ? a : b) over the parsed
\* dates, or new Date(Math.min(...dates)); then toLocaleDateString('en-GB').
RECURSIVE ReduceEarliest(_, _)
ReduceEarliest(investments, ids) ==
    IF Len(ids) = 1 THEN ParseDate(investments[ids[1]].date)
    ELSE LET a == ReduceEarliest(investments, SubSeq(ids, 1, Len(ids) - 1))
             b == ParseDate(investments[ids[Len(ids)]].date)
         IN  IF JsGt(TimeValue(b), TimeValue(a)) THEN a ELSE b

MinEarliest(investments) ==
    LET dates == { ParseDate(investments[i].date) : i \in DOMAIN investments }
    IN  IF InvalidDate \in dates THEN InvalidDate
        ELSE CHOOSE dt \in dates : \A o \in dates : ~JsGt(TimeValue(dt), TimeValue(o))

earliestDateStr(s, investments) ==
    IF s \in {"part001a", "part005", "part006"}
    THEN FormatGB(MinEarliest(investments))
    ELSE FormatGB(ReduceEarliest(investments, IdSeq(DOMAIN investments)))

(***************************************************************************)
(* fetchHistoricalPrice (and the inline loop of the revisions without the  *)
(* function): up to LookbackDays days, one request per day, starting at    *)
(* the date parsed from dateStr.  The result tells whether the call threw  *)
(* (and why), the price returned, the days requested, in order, and the    *)
(* answers received.                                                       *)
(***************************************************************************)
HistResult(threw, why, price, tried, answers) ==
    [threw |-> threw, why |-> why, price |-> price, tried |-> tried, answers |-> answers]

RECURSIVE HistLoop(_, _, _, _, _, _, _)
HistLoop(s, date, i, attempt, resps, tried, answers) ==
    IF i = LookbackDays THEN HistResult(FALSE, "", Zero, tried, answers)
    ELSE IF date = InvalidDate /\ s # "part001a"
    THEN \* toISOString() of an invalid date throws, outside the try
         HistResult(TRUE, "date", Zero, tried, answers)
    ELSE LET resp == IF resps = <<>> THEN NoClose ELSE Head(resps)
             rest == IF resps = <<>> THEN <<>> ELSE Tail(resps)
             asked == Append(tried, date)
             got == Append(answers, resp)
         IN  IF resp.kind = "throw" /\ s = "part008"
             THEN HistResult(TRUE, "provider", Zero, asked, got)
             ELSE IF resp.kind = "throw" /\ s = "update2"
             THEN IF attempt = retries - 1
                  THEN HistResult(TRUE, "provider", Zero, asked, got)
                  ELSE HistLoop(s, date, i, attempt + 1, rest, asked, got)
             ELSE IF resp.kind = "note" /\ s = "part005"
             THEN HistResult(FALSE, "", Zero, asked, got)
             ELSE IF resp.kind = "series" /\ resp.close # Undefined
             THEN HistResult(FALSE, "", resp.close, asked, got)
             ELSE HistLoop(s, PrevDay(date), i + 1, 0, rest, asked, got)

fetchHistoricalPrice(s, dateStr, resps) ==
    HistLoop(s, ParseDate(dateStr), 0, 0, resps, <<>>, <<>>)

(***************************************************************************)
(* Anchors: which benchmark start prices a script needs, under which key   *)
(* of the inception cache, and whether it looks a missing one up.          *)
(***************************************************************************)
Anchor(name, key, dateStr, cache, lookup) ==
    [name |-> name, key |-> key, dateStr |-> dateStr, cache |-> cache, lookup |-> lookup]

Anchors(s, investments) ==
    IF s \in {"part002", "part003"}
    THEN << Anchor("current", Key0510, Key0510, "keyed", FALSE),
            Anchor("allTime", Key1407, Key1407, "keyed", FALSE) >>
    ELSE IF s = "part009"
    THEN << Anchor("current", Key0510, Key0510, "keyed", TRUE),
            Anchor("allTime", Key1908, Key1908, "keyed", TRUE) >>
    ELSE IF s = "part006"
    THEN LET currentStartDate == earliestDateStr(s, investments)
         IN  << Anchor("current", Dashed(currentStartDate), currentStartDate, "keyed", TRUE),
                Anchor("allTime", FixedKey(Dashed(FixedStartDate)), FixedStartDate, "keyed", TRUE) >>
    ELSE LET eds == earliestDateStr(s, investments)
         IN  << Anchor("single", eds, eds, IF s = "part001a" THEN "doc"
                              ELSE IF s = "part001b" THEN "entry" ELSE "none", TRUE) >>

\* The start price the cache gives for an anchor, 0 when it gives none.
CachedPrice(cache, anchor) ==
    IF anchor.cache = "keyed" THEN OrZero(Get(cache.keyed, anchor.key))
    ELSE IF anchor.cache = "doc"
         THEN IF cache.date = anchor.key /\ JsGt(cache.spyStartPrice, Zero)
              THEN cache.spyStartPrice ELSE Zero
    ELSE IF anchor.cache = "entry"
         THEN IF cache.date = anchor.key /\ JsGt(cache.price, Zero)
              THEN cache.price ELSE Zero
    ELSE Zero

\* A resolver that never finds its key in the cache.
CacheHitNever(cache, anchor) == FALSE

\* if (spyCurrentStart === 0) fetch...; the single-entry layout fetches
\* unless the date matches and the price is positive.
CacheHit(cache, anchor) == CachedPrice(cache, anchor) # Zero

\* A resolver that caches whatever the lookup returned.
CacheableAnyPrice(anchor, price) == anchor.cache # "none"

\* if (spyCurrentStart > 0) await db.ref(`inceptionCache/${key}`).set(...)
Cacheable(anchor, price) == anchor.cache # "none" /\ JsGt(price, Zero)

\* The document a script writes after a successful lookup.
WithInception(cache, anchor, price) ==
    IF anchor.cache = "keyed" THEN [cache EXCEPT !.keyed = Put(@, anchor.key, price)]
    ELSE IF anchor.cache = "doc"
    THEN [EmptyInception EXCEPT !.date = anchor.key, !.spyStartPrice = price]
    ELSE [EmptyInception EXCEPT !.date = anchor.key, !.price = price]

(***************************************************************************)
(* BenchmarkCalculator: the document a script computes for benchmarkCache. *)
(* start maps an anchor name to its resolved start price.                  *)
(***************************************************************************)
SpyReturn(cur, st) == Pct(JsSub(cur, st), st)

\* The portfolio totals main computes before the benchmark.
Totals(investments, realized, priceCache) ==
    [totalInvested |-> totalInvested(investments),
     currentValue |-> totalValue(investments, priceCache),
     unrealizedPL |-> currentUnrealizedPL(investments, priceCache),
     realizedPL |-> totalRealizedPL(realized),
     allTimePL |-> allTimeTotalPL(investments, realized, priceCache)]

Benchmark(s, investments, realized, priceCache, start) ==
    LET totals == Totals(investments, realized, priceCache)
        invested == totals.totalInvested
        unrealized == totals.unrealizedPL
        allTimePL == totals.allTimePL
        spyCurrentPrice == OrZero(Get(priceCache, "SPY"))
        priced == JsGt(spyCurrentPrice, Zero)
    IN  IF s \in {"part002", "part003", "part006", "part009"}
        THEN LET curGuard ==
                     /\ JsGt(invested, Zero)
                     /\ JsGt(start["current"], Zero)
                     /\ (s = "part006" \/ priced)
                 allGuard ==
                     /\ (s \in {"part003", "part009"} \/ JsGt(invested, Zero))
                     /\ JsGt(start["allTime"], Zero)
                     /\ (s = "part006" \/ priced)
                 base == IF s = "part003" THEN Num(INITIAL_CAPITAL)
                         ELSE IF s = "part009" THEN Num(TOTAL_CAPITAL)
                         ELSE invested
             IN  AnchorBenchmark(
                     IF curGuard
                     THEN [our |-> Pct(unrealized, invested),
                           spy |-> SpyReturn(spyCurrentPrice, start["current"])]
                     ELSE ZeroPair,
                     IF allGuard
                     THEN [our |-> Pct(allTimePL, base),
                           spy |-> SpyReturn(spyCurrentPrice, start["allTime"])]
                     ELSE ZeroPair)
        ELSE IF /\ JsGt(invested, Zero)
                /\ JsGt(start["single"], Zero)
                /\ (s = "part001b" \/ priced)
             THEN SingleBenchmark(Pct(unrealized, invested),
                                  SpyReturn(spyCurrentPrice, start["single"]))
             ELSE SingleBenchmark(Zero, Zero)

\* The numbers of a benchmarkCache document.
BenchmarkNumbers(b) ==
    IF b.shape = "single" THEN {b.ourReturn, b.spyReturn}
    ELSE IF b.shape = "anchors" THEN {b.current.our, b.current.spy, b.allTime.our, b.allTime.spy}
    ELSE {}

(***************************************************************************)
(* sellInvestment of the browser (script.js): the pure parts.  prompt()    *)
(* returns the text typed, or null when the dialog is cancelled.  A price  *)
(* text is a number literal (numeric, its value v) or other text; a date   *)
(* text is a date string.                                                  *)
(***************************************************************************)
PriceText(v) == [null |-> FALSE, numeric |-> TRUE, v |-> v]

WordsText == [null |-> FALSE, numeric |-> FALSE, v |-> Undefined]

PriceCancelled == [null |-> TRUE, numeric |-> FALSE, v |-> Undefined]

DateText(ds) == [null |-> FALSE, text |-> ds]

DateCancelled == [null |-> TRUE, text |-> NoDateStr]

\* What the administrator may answer to the two prompts.
SellPriceInputs ==
    { PriceText(Num(120)), PriceText(Zero), PriceText(Num(-5)),
      PriceText(Infinity(1)), WordsText, PriceCancelled }

SellDateInputs ==
    { DateText(DS(15, 2, 2025)), DateText(DS(15, 5, 2025)), DateText(DS(15, 8, 2025)),
      DateText(DS(15, 11, 2025)), DateText(DS(15, 13, 2025)), DateText(DS(15, 0, 2025)),
      DateText(Dashed(DS(15, 11, 2025))), DateText(NoDateStr), DateCancelled }

\* parseFloat(sellPriceInput): the number a literal denotes ("Infinity"
\* included); NaN for other text and for null (read as the text "null").
parseFloat(input) ==
    IF input.null \/ ~input.numeric THEN NaN ELSE ToNumber(input.v)

\* isNaN(x)
isNaN(v) == ToNumber(v).t = "nan"

\* a >= b and a <= b; false when either side is NaN or undefined.
JsGe(a, b) == JsGt(a, b) \/ (~isNaN(a) /\ ToNumber(a) = ToNumber(b))

JsLe(a, b) == JsGe(b, a)

\* const [day, month, year] = sellDateInput.split("/").map(num => parseInt(num, 10)):
\* a text without "/" is one part, of which parseInt reads the leading
\* digits; the parts that are missing are undefined.
splitDate(ds) ==
    LET first == IF ds.pre = "" /\ ds.sep # "" THEN Num(ds.a) ELSE NaN
    IN  IF ds.sep = "/" THEN <<first, Num(ds.b), Num(ds.c)>>
        ELSE <<first, Undefined, Undefined>>

\* Determine quarter.
quarterOf(month) ==
    IF JsGe(month, Num(1)) /\ JsLe(month, Num(3)) THEN "Q1"
    ELSE IF JsGe(month, Num(4)) /\ JsLe(month, Num(6)) THEN "Q2"
    ELSE IF JsGe(month, Num(7)) /\ JsLe(month, Num(9)) THEN "Q3"
    ELSE "Q4"

\* archivedTrades/${year}/${quarter}: the year is written as the text of the
\* value (digits, "NaN" or "undefined"), a different text for each value.
archivePath(ds) ==
    [year |-> splitDate(ds)[3], quarter |-> quarterOf(splitDate(ds)[2])]

\* A realized P/L that ignores the cost.
plOfProceeds(inv, sellPrice) == JsMul(sellPrice, inv.shares)

\* const pl = (sellPrice - inv.price) * inv.shares
plOf(inv, sellPrice) == JsMul(JsSub(sellPrice, inv.price), inv.shares)

\* The record pushed to the archive.
archivedTrade(inv, sellPrice, ds) ==
    [symbol |-> inv.symbol, shares |-> inv.shares, buyPrice |-> inv.price,
     sellPrice |-> sellPrice, buyDate |-> inv.date, sellDate |-> ds,
     pl |-> plOf(inv, sellPrice)]

\* The database client refuses a value with an undefined, NaN or infinite
\* property.
Storable(trade) ==
    \A v \in {trade.shares, trade.buyPrice, trade.sellPrice, trade.pl} : IsFinite(v)

\* db.ref(archivePath).push(trade): the trades of a bucket in push order.
pushTrade(archive, path, trade) ==
    Put(archive, path, IF path \in DOMAIN archive THEN Append(archive[path], trade)
                       ELSE <<trade>>)

\* The archived trades as (bucket, index) pairs.
TradeSlots(archive) ==
    UNION { { <<p, i>> : i \in 1..Len(archive[p]) } : p \in DOMAIN archive }

NoPosition == [symbol |-> "", shares |-> Undefined, price |-> Undefined, date |-> NoDateStr]

NoPath == [year |-> Undefined, quarter |-> ""]

\* What the last call of sellInvestment did: the position it read, the
\* alert it showed, whether it ended in an uncaught exception, and the
\* bucket it wrote.
Sale(id, inv, alert, threw, path) ==
    [id |-> id, inv |-> inv, alert |-> alert, threw |-> threw, path |-> path]

NoSale == Sale(0, NoPosition, "", FALSE, NoPath)

\* The invocations of sellInvestment that can be under way at once (two
\* clicks, or two administrators), and where an invocation stands: its read
\* issued (reading), its push and remove issued and the push on its way
\* (pushing), the remove on its way (removing), or over (done).
Calls == {1, 2}

IdleCall ==
    [pc |-> "idle", id |-> 0, inv |-> NoPosition, path |-> NoPath,
     trade |-> archivedTrade(NoPosition, Undefined, NoDateStr),
     pushed |-> FALSE, removed |-> FALSE]

NoCalls == [c \in Calls |-> IdleCall]

(***************************************************************************)
(* The page of the browser: the user the auth service reports (NoUser when *)
(* signed out), the sign-ins seen so far, the role lookups that are still  *)
(* pending (each tagged with the user and the number of its sign-in), the  *)
(* last alert of addInvestment, clearAll or deleteStock (sellInvestment's   *)
(* is kept in sold), the writes sent that have not reached the store yet   *)
(* (the pushes of addInvestment, each with the key push() made for it, the *)
(* number of keys made so far, the removes of deleteStock and the removes  *)
(* of clearAll), and the holdings view: the listenersAttached flag,        *)
(* the value listeners registered on investments (each with the snapshot   *)
(* it was last called with) and on realized (their number), the value      *)
(* events rendered so far (each with its snapshot, the positions whose     *)
(* price callback is still to come and the totalValue of its closure), the *)
(* rows of the holdings table (position ids, in order) and the last        *)
(* updateSummary call.                                                     *)
(***************************************************************************)
Users == {"ahad", "guest"}

NoUser == ""

\* The roles node of the store: roles/<uid>.
roleOf(uid) == IF uid = "ahad" THEN "admin" ELSE "viewer"

NoSummary == [invested |-> Undefined, value |-> Undefined]

Summary(invested, value) == [invested |-> invested, value |-> value]

NoPage ==
    [user |-> NoUser, signins |-> 0, lookups |-> {}, alert |-> "",
     listenersAttached |-> FALSE,
     listeners |-> [investments |-> <<>>, realized |-> 0],
     keys |-> 0, pushes |-> <<>>, deletes |-> <<>>,
     removes |-> <<>>, renders |-> <<>>, rows |-> <<>>, summary |-> NoSummary]

(***************************************************************************)
(* State.  db is the document store; run[r] is one invocation of a script: *)
(* its position (pc), what it has read, its in-memory priceCache, the      *)
(* quotes in flight, the milliseconds waited in the current pause, the     *)
(* pauses taken, the writes of priceCache made and the anchor it is        *)
(* resolving.  fetched, prior, res,                                        *)
(* totals and bench record what the invocation fetched, read, resolved and *)
(* computed.  resolved records, per key, the price of the first successful *)
(* resolution; sold records what the last call of sellInvestment did;      *)
(* calls holds the invocations of sellInvestment taken step by step; page  *)
(* is the page of the browser.                                             *)
(***************************************************************************)
NoTotals == Totals(EmptyMap, EmptyMap, EmptyMap)

IdleRun ==
    [script |-> "", config |-> GoodConfig,
     pc |-> "idle", exit |-> "none", cause |-> "",
     investments |-> EmptyMap, realized |-> EmptyMap,
     inceptionCache |-> EmptyInception,
     prior |-> EmptyMap, priceCache |-> EmptyMap,
     todo |-> <<>>, inflight |-> {}, fetched |-> EmptyMap, attempt |-> 0,
     waited |-> 0, pauses |-> 0, writes |-> 0, reads |-> {},
     k |-> 0, start |-> EmptyMap,
     res |-> <<>>, totals |-> NoTotals, bench |-> NoBenchmark]

InitStore ==
    /\ db \in [investments : InitInvestments, realized : InitRealized,
               priceCache : InitPriceCaches, inceptionCache : InitInceptionCaches,
               benchmarkCache : {NoBenchmark}, archivedTrades : {EmptyMap}]
    /\ run = [r \in Runs |-> IdleRun]
    /\ resolved = EmptyMap
    /\ sold = NoSale
    /\ calls = NoCalls
    /\ page = NoPage

\* The browser session of a signed-in administrator beside the batch job.
Init == InitStore /\ isAdmin = TRUE

Active(r) == run[r].pc \notin {"idle", "done"}

SetRun(r, rec) == run' = [run EXCEPT ![r] = rec]

Fatal(rec, why) == [rec EXCEPT !.pc = "done", !.exit = "fatal", !.cause = why]

\* The cycle returns: exit code 0, unless the process stays alive or the
\* return statement itself throws.
Finished(rec) ==
    IF ReturnThrows(rec.script) THEN Fatal(rec, "return")
    ELSE [rec EXCEPT !.pc = "done",
                     !.exit = IF StaysAlive(rec.script, DOMAIN rec.investments = {})
                              THEN "none" ELSE "ok"]

\* Request the next group of waiting symbols; with none waiting and none in
\* flight the price phase is over.
Launch(rec) ==
    LET n == GroupSize(rec.script, Len(rec.todo))
    IN  IF n = 0 THEN [rec EXCEPT !.pc = "storePrices"]
        ELSE [rec EXCEPT !.pc = "fetch",
                         !.inflight = Range(SubSeq(rec.todo, 1, n)),
                         !.todo = SubSeq(rec.todo, n + 1, Len(rec.todo))]

\* An update that goes to write its priceCache after every group of quotes.
AfterGroupStores(rec) ==
    IF rec.inflight # {} THEN rec ELSE [rec EXCEPT !.pc = "storePrices"]

\* A group of quotes is complete: if (i + batchSize < symbols.length) await
\* sleep(1000) in the batched update, then the next group.
AfterGroup(rec) ==
    IF rec.inflight # {} THEN rec
    ELSE IF rec.script \in BatchScripts /\ Len(rec.todo) > 0
    THEN [rec EXCEPT !.pc = "sleep", !.waited = 0, !.pauses = @ + 1]
    ELSE Launch(rec)

\* The anchor a run is resolving.
CurrentAnchor(rec) == Anchors(rec.script, rec.investments)[rec.k]

\* Go on to the next anchor, or to the benchmark computation.
NextAnchor(rec) ==
    IF rec.k < Len(Anchors(rec.script, rec.investments))
    THEN [rec EXCEPT !.pc = "resolve", !.k = rec.k + 1]
    ELSE [rec EXCEPT !.pc = "benchmark"]

\* An anchor's start price is known: from the cache (hit), or from a lookup
\* that requested the days tried and received answers (their closes are kept).
Resolved(rec, price, hit, tried, answers) ==
    [rec EXCEPT !.start = Put(@, CurrentAnchor(rec).name, price),
                !.res = Append(@, [key |-> CurrentAnchor(rec).key,
                                   dateStr |-> CurrentAnchor(rec).dateStr,
                                   hit |-> hit, tried |-> tried,
                                   closes |-> [j \in DOMAIN answers |-> answers[j].close],
                                   price |-> price])]

(***************************************************************************)
(* main / updateAllPrices: start of a cycle.                               *)
(***************************************************************************)
\* The cycle once the first reads are answered: the no-positions branch of
\* the script, or the price phase.
Begun(rec) ==
    LET s == rec.script
    IN  IF DOMAIN rec.investments = {}
        THEN IF NoInvestmentsMode(s) = "exit" THEN Finished(rec)
             ELSE IF NoInvestmentsMode(s) = "wipe"
                  THEN [rec EXCEPT !.pc = "resetBenchmark"]
             ELSE Launch([rec EXCEPT !.todo = <<"SPY">>])
        ELSE IF s \in MergeScripts
             THEN [rec EXCEPT !.pc = "readCache", !.todo = SymbolsOf(s, rec.investments)]
        ELSE Launch([rec EXCEPT !.todo = SymbolsOf(s, rec.investments)])

\* The run record of script s after it has read its settings and, when it
\* reads the investments node alone, that node; a script that sends several
\* reads together waits for their answers.
Started(s, cfg) ==
    LET rec == [IdleRun EXCEPT !.script = s, !.config = cfg]
    IN  IF ConfigThrows(s, cfg) THEN Fatal(rec, "config")
        ELSE IF FirstReads(s) = {"investments"}
        THEN Begun([rec EXCEPT !.investments = db.investments])
        ELSE [rec EXCEPT !.pc = "reading", !.reads = FirstReads(s)]

\* A cycle started with every setting in place.
Start(r, s) ==
    /\ ~Active(r)
    /\ SetRun(r, Started(s, GoodConfig))
    /\ UNCHANGED <<db, isAdmin, resolved, sold, calls, page>>

\* A cycle started with the settings cfg.
StartWith(r, s, cfg) ==
    /\ ~Active(r)
    /\ SetRun(r, Started(s, cfg))
    /\ UNCHANGED <<db, isAdmin, resolved, sold, calls, page>>

\* One of the reads sent together is answered with the node as the store
\* holds it now; with the last answer the cycle goes on.
ReadAnswered(r, node) ==
    /\ run[r].pc = "reading"
    /\ node \in run[r].reads
    /\ LET rec == [run[r] EXCEPT
                     !.reads = @ \ {node},
                     !.investments = IF node = "investments" THEN db.investments ELSE @,
                     !.realized = IF node = "realized" THEN db.realized ELSE @,
                     !.inceptionCache = IF node = "inceptionCache"
                                        THEN db.inceptionCache ELSE @]
       IN  SetRun(r, IF rec.reads = {} THEN Begun(rec) ELSE rec)
    /\ UNCHANGED <<db, isAdmin, resolved, sold, calls, page>>

\* The read of the investments node rejects (the store cannot be reached):
\* main's catch, or the unhandled rejection of updateAllPrices(), ends the
\* process with exit code 1.
StoreReadFails(r, s) ==
    /\ ~Active(r)
    /\ SetRun(r, Fatal([IdleRun EXCEPT !.script = s], "store"))
    /\ UNCHANGED <<db, isAdmin, resolved, sold, calls, page>>

\* A script that reads the old cache but builds its priceCache object anew.
ReadPriceCacheFresh(r) ==
    /\ run[r].pc = "readCache"
    /\ SetRun(r, Launch([run[r] EXCEPT !.prior = db.priceCache]))
    /\ UNCHANGED <<db, isAdmin, resolved, sold, calls, page>>

\* let priceCache = (await db.ref('priceCache').once('value')).val() || {}
ReadPriceCache(r) ==
    /\ run[r].pc = "readCache"
    /\ SetRun(r, Launch([run[r] EXCEPT !.prior = db.priceCache,
                                       !.priceCache = db.priceCache]))
    /\ UNCHANGED <<db, isAdmin, resolved, sold, calls, page>>

\* A callback that replaces the priceCache object by the quote it received.
CompletedAlone(rec, sym, resp) ==
    LET price == fetchLivePrice(resp)
    IN  AfterGroup([rec EXCEPT
                      !.priceCache = IF KeepsPrice(rec.script, price)
                                     THEN (sym :> price) ELSE @,
                      !.fetched = Put(@, sym, price),
                      !.attempt = 0,
                      !.inflight = @ \ {sym}])

\* The run record after the quote request of sym has completed with answer
\* resp: if (price > 0) priceCache[symbol] = price, or the plain assignment.
Completed(rec, sym, resp) ==
    LET price == fetchLivePrice(resp)
    IN  AfterGroup([rec EXCEPT
                      !.priceCache = IF KeepsPrice(rec.script, price)
                                     THEN Put(@, sym, price) ELSE @,
                      !.fetched = Put(@, sym, price),
                      !.attempt = 0,
                      !.inflight = @ \ {sym}])

\* One quote request completes with answer resp.
FetchComplete(r, sym, resp) ==
    /\ run[r].pc = "fetch"
    /\ sym \in run[r].inflight
    /\ ~(run[r].script = "update2" /\ resp.kind = "throw")
    /\ SetRun(r, Completed(run[r], sym, resp))
    /\ UNCHANGED <<db, isAdmin, resolved, sold, calls, page>>

\* A fetchWithRetry that never gives up.
GivesUpNever(failed) == FALSE

\* if (i === retries - 1) throw err, with i the attempts that failed before.
GivesUp(failed) == failed = retries - 1

\* fetchWithRetry: fetch throws; sleep and retry, or rethrow on the last
\* attempt, which main's catch turns into the fatal exit.
QuoteThrows(r, sym) ==
    /\ run[r].pc = "fetch"
    /\ sym \in run[r].inflight
    /\ run[r].script = "update2"
    /\ SetRun(r, IF GivesUp(run[r].attempt)
                 THEN Fatal(run[r], "provider")
                 ELSE [run[r] EXCEPT !.attempt = @ + 1, !.pc = "backoff", !.waited = 0])
    /\ UNCHANGED <<db, isAdmin, resolved, sold, calls, page>>

\* The delay of the sleep a run is in.
Delay(rec) == IF rec.pc = "backoff" THEN retryDelayMs ELSE pauseMs

\* Time passes while a run sleeps between two batches or two attempts.
Tick(r) ==
    /\ run[r].pc \in {"sleep", "backoff"}
    /\ run[r].waited < Delay(run[r])
    /\ SetRun(r, [run[r] EXCEPT !.waited = @ + Delay(run[r]) \div 2])
    /\ UNCHANGED <<db, isAdmin, resolved, sold, calls, page>>

\* The sleep of fetchWithRetry is over: the next turn of its loop.
TryAgain(r) ==
    /\ run[r].pc = "backoff"
    /\ run[r].waited >= retryDelayMs
    /\ SetRun(r, [run[r] EXCEPT !.pc = "fetch"])
    /\ UNCHANGED <<db, isAdmin, resolved, sold, calls, page>>

\* setTimeout(resolve, ms) resolves when ms have passed: the next batch.
Wake(r) ==
    /\ run[r].pc = "sleep"
    /\ run[r].waited >= pauseMs
    /\ SetRun(r, Launch(run[r]))
    /\ UNCHANGED <<db, isAdmin, resolved, sold, calls, page>>

\* Whether the script writes its priceCache object to the store.
WritesPrices(rec) ==
    IF rec.script \in PriceOnlyScripts THEN DOMAIN rec.priceCache # {}
    ELSE IF DOMAIN rec.investments = {} THEN JsGt(Get(rec.priceCache, "SPY"), Zero)
    ELSE TRUE

\* await db.ref('priceCache').set(priceCache)
StorePrices(r) ==
    /\ run[r].pc = "storePrices"
    /\ db' = IF WritesPrices(run[r]) THEN [db EXCEPT !.priceCache = run[r].priceCache] ELSE db
    /\ LET rec == [run[r] EXCEPT !.writes = IF WritesPrices(run[r]) THEN @ + 1 ELSE @]
       IN  SetRun(r, IF rec.script \in PriceOnlyScripts THEN Finished(rec)
                     ELSE IF rec.script \in {"part001a", "part001b", "part006"}
                          THEN [rec EXCEPT !.pc = "readInception"]
                     ELSE [rec EXCEPT !.pc = "resolve", !.k = 1])
    /\ UNCHANGED <<isAdmin, resolved, sold, calls, page>>

\* db.ref('priceCache').set(priceCache) rejects: nothing is written and the
\* rejection ends the process with exit code 1.
StoreWriteFails(r) ==
    /\ run[r].pc = "storePrices"
    /\ WritesPrices(run[r])
    /\ SetRun(r, Fatal(run[r], "store"))
    /\ UNCHANGED <<db, isAdmin, resolved, sold, calls, page>>

\* The empty-portfolio branch that resets both documents.
ResetBenchmark(r) ==
    /\ run[r].pc = "resetBenchmark"
    /\ db' = [db EXCEPT !.benchmarkCache = AnchorBenchmark(ZeroPair, ZeroPair)]
    /\ SetRun(r, [run[r] EXCEPT !.pc = "clearPrices",
                                !.bench = AnchorBenchmark(ZeroPair, ZeroPair)])
    /\ UNCHANGED <<isAdmin, resolved, sold, calls, page>>

ClearPriceCache(r) ==
    /\ run[r].pc = "clearPrices"
    /\ db' = [db EXCEPT !.priceCache = EmptyMap]
    /\ SetRun(r, Finished([run[r] EXCEPT !.writes = @ + 1]))
    /\ UNCHANGED <<isAdmin, resolved, sold, calls, page>>

(***************************************************************************)
(* InceptionResolver.                                                      *)
(***************************************************************************)
\* const inceptionCache = (await db.ref('inceptionCache').once('value')).val() || {}
ReadInceptionCache(r) ==
    /\ run[r].pc = "readInception"
    /\ SetRun(r, [run[r] EXCEPT !.inceptionCache = db.inceptionCache,
                                !.pc = "resolve", !.k = 1])
    /\ UNCHANGED <<db, isAdmin, resolved, sold, calls, page>>

\* Resolve the next anchor: the cached price on a hit; on a miss the lookup,
\* the provider answering resps.  A positive price found is cached next.
Resolve(r, resps) ==
    /\ run[r].pc = "resolve"
    /\ LET rec == run[r]
           anchor == CurrentAnchor(rec)
           got == fetchHistoricalPrice(rec.script, anchor.dateStr, resps)
           found == Resolved(rec, got.price, FALSE, got.tried, got.answers)
       IN  IF CacheHit(rec.inceptionCache, anchor)
           THEN SetRun(r, NextAnchor(Resolved(rec, CachedPrice(rec.inceptionCache, anchor),
                                              TRUE, <<>>, <<>>)))
           ELSE IF ~anchor.lookup
           THEN SetRun(r, NextAnchor(Resolved(rec, Zero, FALSE, <<>>, <<>>)))
           ELSE IF got.threw
           THEN SetRun(r, Fatal(Resolved(rec, Undefined, FALSE, got.tried, got.answers), got.why))
           ELSE IF Cacheable(anchor, got.price)
           THEN SetRun(r, [found EXCEPT !.pc = "cacheInception"])
           ELSE SetRun(r, NextAnchor(found))
    /\ UNCHANGED <<db, isAdmin, resolved, sold, calls, page>>

\* await db.ref('inceptionCache/<key>').set(price), or the single-entry
\* layout's set({date, spyStartPrice}).
CacheInception(r) ==
    /\ run[r].pc = "cacheInception"
    /\ LET anchor == CurrentAnchor(run[r])
           price == run[r].start[anchor.name]
       IN  /\ db' = [db EXCEPT !.inceptionCache = WithInception(@, anchor, price)]
           /\ resolved' = IF anchor.key \in DOMAIN resolved THEN resolved
                          ELSE Put(resolved, anchor.key, price)
    /\ SetRun(r, NextAnchor(run[r]))
    /\ UNCHANGED <<isAdmin, sold, calls, page>>

(***************************************************************************)
(* BenchmarkCalculator and the end of the cycle.  The store refuses a      *)
(* document that holds NaN or an infinity, or takes it, depending on the   *)
(* store; both are modelled (accepts).                                     *)
(***************************************************************************)
WriteBenchmark(r, accepts) ==
    /\ run[r].pc = "benchmark"
    /\ LET bench == Benchmark(run[r].script, run[r].investments, run[r].realized,
                              run[r].priceCache, run[r].start)
           rec == [run[r] EXCEPT !.bench = bench,
                                 !.totals = Totals(run[r].investments, run[r].realized,
                                                   run[r].priceCache)]
       IN  IF accepts \/ \A v \in BenchmarkNumbers(bench) : IsFinite(v)
           THEN /\ db' = [db EXCEPT !.benchmarkCache = bench]
                /\ SetRun(r, Finished(rec))
           ELSE /\ db' = db
                /\ SetRun(r, Fatal(rec, "store"))
    /\ UNCHANGED <<isAdmin, resolved, sold, calls, page>>

(***************************************************************************)
(* The browser's handlers that change the store.  A handler sends its      *)
(* writes and returns; each write reaches the store later, in a step of    *)
(* its own, whatever the page has done in between.                         *)
(***************************************************************************)
\* push() makes a key that was never in use: the key after the keys of the
\* positions stored at first and the keys made before.
pushId(keys) == Cardinality(TradeIds) + keys + 1

\* Handlers that let everyone through.
DeniedNever(admin) == FALSE

\* if (!isAdmin) return alert("Only admins can ...")
Denied(admin) == ~admin

Alerted(text) == [page EXCEPT !.alert = text]

\* The sequence q without its element i.
Dropped(q, i) == SubSeq(q, 1, i - 1) \o SubSeq(q, i + 1, Len(q))

\* addInvestment() with the filled form inv: the refusal, or the push of
\* inv is sent under a new key.
addInvestment(inv) ==
    /\ Denied(isAdmin) \/ page.keys < MaxPushes
    /\ page' = IF Denied(isAdmin) THEN Alerted("Only admins can add investments.")
               ELSE [page EXCEPT !.keys = @ + 1,
                                 !.pushes = Append(@, [key |-> pushId(page.keys),
                                                       inv |-> inv])]
    /\ UNCHANGED <<db, run, isAdmin, resolved, sold, calls>>

\* Push i of addInvestment reaches the store, which stores the position
\* (ok) or rejects the write; nothing in the page waits for the outcome.
addLands(i, ok) ==
    /\ i \in DOMAIN page.pushes
    /\ db' = IF ok THEN [db EXCEPT !.investments =
                                      Put(@, page.pushes[i].key, page.pushes[i].inv)]
             ELSE db
    /\ page' = [page EXCEPT !.pushes = Dropped(@, i)]
    /\ UNCHANGED <<run, isAdmin, resolved, sold, calls>>

\* clearAll: the removes of investments and of realized are sent and the
\* summaries reset.
clearAll ==
    /\ Denied(isAdmin) \/ Len(page.removes) + 2 <= MaxRemoves
    /\ page' = IF Denied(isAdmin) THEN Alerted("Only admins can clear data.")
               ELSE [page EXCEPT !.removes = @ \o <<"investments", "realized">>,
                                 !.summary = Summary(Zero, Zero)]
    /\ UNCHANGED <<db, run, isAdmin, resolved, sold, calls>>

\* The next remove of clearAll reaches the store.
clearLands ==
    /\ page.removes # <<>>
    /\ db' = IF Head(page.removes) = "investments"
             THEN [db EXCEPT !.investments = EmptyMap]
             ELSE [db EXCEPT !.realized = EmptyMap]
    /\ page' = [page EXCEPT !.removes = Tail(@)]
    /\ UNCHANGED <<run, isAdmin, resolved, sold, calls>>

\* deleteStock(id) with the answer to confirm(): the refusal, nothing, or
\* the remove of investments/<id> is sent.
deleteStock(id, confirms) ==
    /\ Denied(isAdmin) \/ ~confirms \/ Len(page.deletes) < MaxDeletes
    /\ page' = IF Denied(isAdmin) THEN Alerted("Only admins can delete stocks.")
               ELSE IF ~confirms THEN page
               ELSE [page EXCEPT !.deletes = Append(@, id)]
    /\ UNCHANGED <<db, run, isAdmin, resolved, sold, calls>>

\* Remove i of deleteStock is answered: the store has taken it (then) or
\* rejected it (catch), and the page alerts.
deleteLands(i, ok) ==
    /\ i \in DOMAIN page.deletes
    /\ db' = IF ok THEN [db EXCEPT !.investments =
                                      [x \in DOMAIN @ \ {page.deletes[i]} |-> @[x]]]
             ELSE db
    /\ page' = [page EXCEPT !.deletes = Dropped(@, i),
                            !.alert = IF ok THEN "Stock deleted."
                                      ELSE "Failed to delete. Check console for details."]
    /\ UNCHANGED <<run, isAdmin, resolved, sold, calls>>

\* The administrator's additions of the forms invs and deletions of the
\* positions ids, each write taken or rejected as oks allows.
Edit(invs, ids, oks) ==
    \/ \E inv \in invs : addInvestment(inv)
    \/ \E i \in DOMAIN page.pushes, ok \in oks : addLands(i, ok)
    \/ \E id \in ids : deleteStock(id, TRUE)
    \/ \E i \in DOMAIN page.deletes, ok \in oks : deleteLands(i, ok)

(***************************************************************************)
(* sellInvestment.  The handler sends its read and returns; the callback   *)
(* runs when the value arrives, and sends push and remove without waiting  *)
(* for either; the store takes or rejects each write.                      *)
(***************************************************************************)
\* The invocations whose trade has not reached the store yet.
Selling == { c \in Calls : calls[c].pc \in {"reading", "pushing"} }

\* sellInvestment(id): the refusal, or
\* db.ref(`investments/${id}`).once("value", callback)
sellInvestment(c, id) ==
    /\ calls[c].pc \in {"idle", "done"}
    /\ \/ Denied(isAdmin)
       \/ Cardinality(TradeSlots(db.archivedTrades)) + Cardinality(Selling) < MaxTrades
    /\ IF Denied(isAdmin)
       THEN /\ sold' = Sale(id, NoPosition, "Only admins can sell stocks.", FALSE, NoPath)
            /\ calls' = calls
       ELSE /\ sold' = sold
            /\ calls' = [calls EXCEPT ![c] = [IdleCall EXCEPT !.pc = "reading", !.id = id]]
    /\ UNCHANGED <<db, run, isAdmin, resolved, page>>

\* The callback, from snapshot.val() to the alert, with the answers to its
\* two prompts: it returns early or throws, or it sends push(trade) and
\* remove().  accepts is the database client's choice for a trade that is
\* not storable.
sellCallback(c, sellPriceInput, sellDateInput, accepts) ==
    /\ calls[c].pc = "reading"
    /\ LET id == calls[c].id
           inv == Get(db.investments, id)
           sellPrice == parseFloat(sellPriceInput)
           path == archivePath(sellDateInput.text)
           trade == archivedTrade(inv, sellPrice, sellDateInput.text)
           over == [calls EXCEPT ![c].pc = "done"]
       IN  IF id \notin DOMAIN db.investments
           THEN /\ sold' = Sale(id, NoPosition, "", FALSE, NoPath)
                /\ calls' = over
           ELSE IF isNaN(sellPrice)
           THEN /\ sold' = Sale(id, inv, "Invalid sell price.", FALSE, NoPath)
                /\ calls' = over
           ELSE IF sellDateInput.null \/ (~Storable(trade) /\ ~accepts)
           THEN /\ sold' = Sale(id, inv, "", TRUE, NoPath)
                /\ calls' = over
           ELSE /\ sold' = Sale(id, inv, "Trade archived to", FALSE, path)
                /\ calls' = [calls EXCEPT ![c] =
                                [@ EXCEPT !.pc = "pushing", !.inv = inv, !.trade = trade,
                                          !.path = path]]
    /\ UNCHANGED <<db, run, isAdmin, resolved, page>>

\* The push reaches the store, which stores the trade (ok) or rejects the
\* write; nothing in the callback waits for the outcome.
pushLands(c, ok) ==
    /\ calls[c].pc = "pushing"
    /\ db' = IF ok THEN [db EXCEPT !.archivedTrades =
                                      pushTrade(@, calls[c].path, calls[c].trade)]
             ELSE db
    /\ calls' = [calls EXCEPT ![c] = [@ EXCEPT !.pc = "removing", !.pushed = ok]]
    /\ UNCHANGED <<run, isAdmin, resolved, sold, page>>

\* The remove, sent after the push, reaches the store.
removeLands(c, ok) ==
    /\ calls[c].pc = "removing"
    /\ db' = IF ok THEN [db EXCEPT !.investments =
                                      [x \in DOMAIN @ \ {calls[c].id} |-> @[x]]]
             ELSE db
    /\ calls' = [calls EXCEPT ![c] = [@ EXCEPT !.pc = "done", !.removed = ok]]
    /\ UNCHANGED <<run, isAdmin, resolved, sold, page>>

\* The steps of the invocations cs of sellInvestment on the positions ids,
\* the prompts answered from prices and dates, each write taken or rejected
\* as oks allows.
Sell(cs, ids, prices, dates, oks) ==
    \E c \in cs :
        \/ \E id \in ids : sellInvestment(c, id)
        \/ \E p \in prices, d \in dates, accepts \in BOOLEAN : sellCallback(c, p, d, accepts)
        \/ \E ok \in oks : pushLands(c, ok)
        \/ \E ok \in oks : removeLands(c, ok)

(***************************************************************************)
(* auth.onAuthStateChanged and logout.  The callback of a sign-in awaits   *)
(* the role of the user and goes on when the lookup is answered; the       *)
(* callback of a sign-out runs to its end at once.                         *)
(***************************************************************************)
\* The auth service reports user u: the callback starts the lookup of
\* roles/<uid> and waits.
signIn(u) ==
    /\ page.user # u
    /\ page.signins < MaxSignIns
    /\ page' = [page EXCEPT !.user = u, !.signins = @ + 1,
                            !.lookups = @ \cup {[uid |-> u, n |-> page.signins + 1]}]
    /\ UNCHANGED <<db, run, isAdmin, resolved, sold, calls>>

\* The lookup l is answered with the stored role (ok) or fails: isAdmin =
\* role === "admin", or the catch's isAdmin = false.
roleArrives(l, ok) ==
    /\ l \in page.lookups
    /\ isAdmin' = (ok /\ roleOf(l.uid) = "admin")
    /\ page' = [page EXCEPT !.lookups = @ \ {l}]
    /\ UNCHANGED <<db, run, resolved, sold, calls>>

\* clearDataDisplay()
clearDataDisplay(pg) ==
    [pg EXCEPT !.rows = <<>>, !.summary = Summary(Zero, Zero),
               !.listenersAttached = FALSE]

\* logout(): auth.signOut(), after which the auth service reports no user:
\* isAdmin = false and clearDataDisplay().
signOut ==
    /\ page.user # NoUser
    /\ isAdmin' = FALSE
    /\ page' = clearDataDisplay([page EXCEPT !.user = NoUser])
    /\ UNCHANGED <<db, run, resolved, sold, calls>>

(***************************************************************************)
(* renderData: the value listeners of the holdings view.                   *)
(***************************************************************************)
\* A listener that has not been called yet, and one called with data.
NotCalled == [called |-> FALSE, data |-> EmptyMap]

CalledWith(data) == [called |-> TRUE, data |-> data]

\* renderData(): if (listenersAttached) return; otherwise one listener more
\* on investments and one more on realized.
renderData ==
    /\ page' = IF page.listenersAttached THEN page
               ELSE [page EXCEPT !.listenersAttached = TRUE,
                                 !.listeners.investments = Append(@, NotCalled),
                                 !.listeners.realized = @ + 1]
    /\ UNCHANGED <<db, run, isAdmin, resolved, sold, calls>>

\* The store calls listener l of investments with the current node (at
\* first, and after a change): the table is emptied, the closure of this
\* event starts one price request per position, or calls updateSummary(0, 0)
\* when there is none.
valueEvent(l) ==
    /\ l \in DOMAIN page.listeners.investments
    /\ page.listeners.investments[l] # CalledWith(db.investments)
    /\ Len(page.renders) < MaxRenders
    /\ page' = [page EXCEPT
                  !.listeners.investments[l] = CalledWith(db.investments),
                  !.rows = <<>>,
                  !.renders = Append(@, [data |-> db.investments,
                                         pending |-> DOMAIN db.investments,
                                         totalValue |-> Zero]),
                  !.summary = IF DOMAIN db.investments = {}
                              THEN Summary(Zero, Zero) ELSE @]
    /\ UNCHANGED <<db, run, isAdmin, resolved, sold, calls>>

\* fetchLivePrice calls back for position id of value event n with
\* currentPrice (0 when the request failed): a row is appended to the table
\* and, when this was the last callback of the event, updateSummary is called
\* with the totals of the event's closure.
priceArrives(n, id, currentPrice) ==
    /\ n \in DOMAIN page.renders
    /\ id \in page.renders[n].pending
    /\ LET render == page.renders[n]
           inv == render.data[id]
           value == JsAdd(render.totalValue, JsMul(inv.shares, currentPrice))
       IN  page' = [page EXCEPT
                      !.rows = Append(@, id),
                      !.renders[n] = [render EXCEPT !.pending = @ \ {id},
                                                    !.totalValue = value],
                      !.summary = IF render.pending = {id}
                                  THEN Summary(totalInvested(render.data), value)
                                  ELSE @]
    /\ UNCHANGED <<db, run, isAdmin, resolved, sold, calls>>

(***************************************************************************)
(* Specifications.  Cycles run one at a time (run 1).  Each specification  *)
(* lets a cycle run the scripts of one family.                             *)
(***************************************************************************)
Reads(r) == \E node \in FirstReads(run[r].script) : ReadAnswered(r, node)

\* The specifications of whole cycles take the administrator's additions
\* and deletions between cycles, and start a cycle when their writes have
\* reached the store: they change investments alone, which a cycle reads
\* once, with its first reads, and never writes, so that a write that
\* lands during a cycle is for that cycle a write before it or after it.
BetweenCycles == \A r \in Runs : ~Active(r)

Landed == page.pushes = <<>> /\ page.deletes = <<>>

Fetch(r) == \E sym \in Symbols, resp \in QuoteResponses : FetchComplete(r, sym, resp)

Lookup(r) == \E resps \in HistSequences : Resolve(r, resps)

Finish(r) == \E accepts \in BOOLEAN : WriteBenchmark(r, accepts)

\* The scripts that merge into the stored priceCache.
NextMerge ==
    \/ Landed /\ \E s \in MergeScripts : Start(1, s)
    \/ ReadPriceCache(1)
    \/ Fetch(1)
    \/ StorePrices(1)
    \/ Lookup(1)
    \/ Finish(1)
    \/ BetweenCycles /\ Edit({PosAAPL}, TradeIds, {TRUE})

\* The stores the price scripts start from: no archived trades, no cached
\* start price (they read neither).
InitMerge ==
    /\ Init
    /\ db.realized = EmptyMap
    /\ db.inceptionCache = EmptyInception

SpecMerge == InitMerge /\ [][NextMerge]_vars

\* The merging scripts and the batched price updater on one store.
NextPrices ==
    \/ Landed /\ \E s \in MergeScripts \cup PriceOnlyScripts : Start(1, s)
    \/ ReadPriceCache(1)
    \/ Fetch(1)
    \/ StorePrices(1)
    \/ Lookup(1)
    \/ Finish(1)
    \/ BetweenCycles /\ Edit({PosAAPL}, TradeIds, {TRUE})

SpecPrices == InitMerge /\ [][NextPrices]_vars

(***************************************************************************)
(* PriceSnapshot.                                                          *)
(***************************************************************************)
\* Whether a step writes the priceCache object of run r to the store.
StoresPrices(r) == run[r].pc = "storePrices" /\ run'[r].pc # "storePrices"

\* C1: over any sequence of cycles, a symbol that holds a positive price in
\* priceCache is never removed by a cycle, and its entry changes only to a
\* strictly positive price fetched for it by the cycle that writes it; when
\* its fetch fails or returns 0 the prior value stays.
C1_PositiveEntryKept ==
    [][\A sym \in DOMAIN db.priceCache :
          JsGt(db.priceCache[sym], Zero) =>
              /\ sym \in DOMAIN db'.priceCache
              /\ \/ db'.priceCache[sym] = db.priceCache[sym]
                 \/ \E r \in Runs :
                       /\ StoresPrices(r)
                       /\ JsGt(Get(run[r].fetched, sym), Zero)
                       /\ db'.priceCache[sym] = run[r].fetched[sym]]_vars

\* The snapshot the merge rule gives for a prior snapshot S and the fetch
\* outcomes F of one cycle.
Merged(S, F) ==
    LET fresh == { sym \in DOMAIN F : JsGt(F[sym], Zero) }
    IN  [sym \in DOMAIN S \cup fresh |-> IF sym \in fresh THEN F[sym] ELSE S[sym]]

\* C2: the snapshot a cycle writes has, for each symbol s, F[s] if F[s] > 0,
\* else S[s] if the prior snapshot S had s, else no entry; symbols of S that
\* the cycle did not fetch keep their entries.
C2_MergedSnapshot ==
    [][\A r \in Runs :
          StoresPrices(r) => db'.priceCache = Merged(run[r].prior, run[r].fetched)]_vars

\* A merging cycle has written: AAPL's fetch failed and its prior price stays,
\* MSFT was not fetched and stays, SPY's fetched price is new.
C2_Witness ==
    /\ run[1].script \in MergeScripts
    /\ run[1].pc = "resolve"
    /\ run[1].prior = ("AAPL" :> Num(155)) @@ ("MSFT" :> Num(290))
    /\ run[1].fetched = ("AAPL" :> Zero) @@ ("SPY" :> Num(160))
    /\ db.priceCache = ("AAPL" :> Num(155)) @@ ("MSFT" :> Num(290)) @@ ("SPY" :> Num(160))

(***************************************************************************)
(* Provider failures.                                                      *)
(***************************************************************************)
Retry(r) == \E sym \in Symbols : QuoteThrows(r, sym)

\* The scripts that fetch through fetchWithRetry or look the start price up
\* outside a try.
ProviderScripts == {"update2", "part008"}

NextProvider ==
    \/ Landed /\ \E s \in ProviderScripts : Start(1, s)
    \/ Fetch(1)
    \/ Retry(1)
    \/ Tick(1)
    \/ TryAgain(1)
    \/ StorePrices(1)
    \/ Lookup(1)
    \/ Finish(1)
    \/ BetweenCycles /\ Edit({PosAAPL}, TradeIds, {TRUE})

SpecProvider == InitMerge /\ [][NextProvider]_vars

\* C3: a provider failure (transport error, non-success status, zero or
\* missing price) for a symbol or for the historical lookup is never fatal:
\* a cycle that ends has not left through the fatal-error path, and with open
\* positions it has written priceCache and benchmarkCache.
C3_ProviderFailureNotFatal ==
    \A r \in Runs :
        (run[r].pc = "done" /\ run[r].cause \notin {"date", "store"}) =>
            /\ run[r].exit # "fatal"
            /\ DOMAIN run[r].investments # {} =>
                   /\ run[r].bench.shape # "none"
                   /\ db.benchmarkCache = run[r].bench
                   /\ db.priceCache = run[r].priceCache

(***************************************************************************)
(* InceptionResolver and InceptionCache.                                   *)
(***************************************************************************)
Remember(r) == CacheInception(r)

\* Lookups that find a close at once or find none in the whole window.
QuickSequences == { q \in HistSequences : Len(q) \in {1, LookbackDays} }

QuickLookup(r) == \E resps \in QuickSequences : Resolve(r, resps)

\* Quotes of a provider that answers every request with a price.
Quote(r) ==
    \E sym \in Symbols, p \in PriceValues :
        FetchComplete(r, sym, [kind |-> "ok", price |-> Num(p)])

\* The scripts with the keyed inception cache.
ResolverScripts == {"part006", "part009"}

\* The stores the resolver scripts start from (they build priceCache anew and
\* the resolver reads no archived trade).
InitResolver ==
    /\ Init
    /\ db.investments \in {EmptyMap, (1 :> PosAAPL) @@ (2 :> PosEarly)}
    /\ db.realized = EmptyMap
    /\ db.priceCache = EmptyMap

NextResolver ==
    \/ Landed /\ \E s \in ResolverScripts : Start(1, s)
    \/ Reads(1)
    \/ Quote(1)
    \/ StorePrices(1)
    \/ ReadInceptionCache(1)
    \/ QuickLookup(1)
    \/ Remember(1)
    \/ Finish(1)
    \/ BetweenCycles /\ Edit({PosAAPL}, TradeIds, {TRUE})

SpecResolver == InitResolver /\ [][NextResolver]_vars

\* A keyed resolver and the single-entry resolver on one store.
NextInception ==
    \/ Landed /\ \E s \in {"part009", "part001a"} : Start(1, s)
    \/ Reads(1)
    \/ Quote(1)
    \/ StorePrices(1)
    \/ ReadInceptionCache(1)
    \/ QuickLookup(1)
    \/ Remember(1)
    \/ Finish(1)
    \/ BetweenCycles /\ Edit(InputValues, TradeIds, {TRUE})

SpecInception == InitResolver /\ [][NextInception]_vars

\* The lookup loops of part_004 (inline) and part_009 (fetchHistoricalPrice).
NextLookup ==
    \/ Landed /\ \E s \in {"part004", "part009"} : Start(1, s)
    \/ Reads(1)
    \/ ReadPriceCache(1)
    \/ Quote(1)
    \/ StorePrices(1)
    \/ Lookup(1)
    \/ Remember(1)
    \/ Finish(1)
    \/ BetweenCycles /\ Edit(InputValues, TradeIds, {TRUE})

InitLookup ==
    /\ Init
    /\ db.realized = EmptyMap

SpecLookup == InitLookup /\ [][NextLookup]_vars

\* Whether a step of run r resolves an anchor, and the resolution it records.
Resolves(r) == Len(run'[r].res) = Len(run[r].res) + 1

Resolution(r) == run'[r].res[Len(run'[r].res)]

\* C4: once a resolution of an anchor key has succeeded (a positive price was
\* found and cached), every later resolution of that key, in the same or a
\* later cycle, issues no historical-price request and yields the same price.
C4_ResolverIdempotent ==
    [][\A r \in Runs :
          (Resolves(r) /\ Resolution(r).key \in DOMAIN resolved) =>
              /\ Resolution(r).hit
              /\ Resolution(r).tried = <<>>
              /\ Resolution(r).price = resolved[Resolution(r).key]]_vars

\* A later cycle has resolved, from the cache and without a request, a key
\* that an earlier lookup resolved.
C4_Witness ==
    \E i \in DOMAIN run[1].res :
        /\ run[1].res[i].key \in DOMAIN resolved
        /\ run[1].res[i].hit
        /\ run[1].res[i].tried = <<>>
        /\ run[1].res[i].price = resolved[run[1].res[i].key]

\* The positive entries of the inceptionCache document, as <<key, price>>.
PositiveEntries(cache) ==
    { <<k, cache.keyed[k]>> : k \in { x \in DOMAIN cache.keyed : JsGt(cache.keyed[x], Zero) } }
    \cup (IF cache.date # NoDateStr /\ JsGt(cache.spyStartPrice, Zero)
          THEN { <<cache.date, cache.spyStartPrice>> } ELSE {})

\* C5: inceptionCache entries are write-once per key: over any sequence of
\* cycles, also when the open positions and so the earliest open date change,
\* a key that holds a positive price is never overwritten, removed or
\* invalidated.
C5_WriteOncePerKey ==
    [][PositiveEntries(db.inceptionCache) \subseteq PositiveEntries(db'.inceptionCache)]_vars

\* C6: a lookup that finds no close within the lookback window yields 0 and
\* leaves inceptionCache unchanged, so the next cycle looks up again; the
\* cache is written only with a positive price that was found, and before
\* the price is used by the benchmark computation.
C6_MissNotCached ==
    [][\A r \in Runs :
          /\ (Resolves(r) /\ ~Resolution(r).hit /\ run'[r].exit # "fatal") =>
                 /\ db'.inceptionCache = db.inceptionCache
                 /\ IF JsGt(Resolution(r).price, Zero)
                    THEN run'[r].pc = "cacheInception"
                    ELSE /\ Resolution(r).price = Zero
                         /\ run'[r].pc # "cacheInception"
                         /\ ~CacheHit(db'.inceptionCache, CurrentAnchor(run[r]))
          /\ (run[r].pc = "cacheInception" /\ run'[r].pc # "cacheInception") =>
                 /\ JsGt(run[r].start[CurrentAnchor(run[r]).name], Zero)
                 /\ CachedPrice(db'.inceptionCache, CurrentAnchor(run[r]))
                        = run[r].start[CurrentAnchor(run[r]).name]
                 /\ run[r].bench = NoBenchmark
          /\ db'.inceptionCache # db.inceptionCache =>
                 \E w \in Runs : run[w].pc = "cacheInception"]_vars

\* A cycle has ended whose lookup tried the whole window and found no close:
\* it yielded 0 and the cache still has no entry for the anchor.
C6_Witness ==
    /\ run[1].pc = "done"
    /\ run[1].exit = "ok"
    /\ run[1].script = "part001a"
    /\ Len(run[1].res) = 1
    /\ ~run[1].res[1].hit
    /\ Len(run[1].res[1].tried) = LookbackDays
    /\ run[1].res[1].price = Zero
    /\ db.inceptionCache = EmptyInception

\* The calendar date an anchor string denotes: day, month, year.
AnchorDate(ds) == MakeDay(ds.c, ds.b, ds.a)

\* C7: the historical lookup starts at the anchor date, steps back one
\* calendar day per attempt, stops at the first day with a close and returns
\* that close, makes at most 7 attempts, and returns 0 after 7 attempts
\* without a close.
C7_LookupWalk ==
    \A r \in Runs : \A i \in DOMAIN run[r].res :
        LET e == run[r].res[i]
            n == Len(e.tried)
        IN  ~e.hit =>
                /\ n \in 1..LookbackDays
                /\ e.tried[1] = AnchorDate(e.dateStr)
                /\ \A j \in 2..n : e.tried[j] = PrevDay(e.tried[j - 1])
                /\ \A j \in 1..(n - 1) : e.closes[j] = Undefined
                /\ IF e.closes[n] # Undefined THEN e.price = e.closes[n]
                   ELSE n = LookbackDays /\ e.price = Zero

(***************************************************************************)
(* BenchmarkCalculator.                                                    *)
(***************************************************************************)
\* The scripts that compute the two-anchor benchmark from the totals.
AnchorScripts == {"part003", "part009"}

\* The stores they start from (they build priceCache anew).  The positions
\* stay as they are while these scripts run.
InitBenchmark ==
    /\ Init
    /\ db.priceCache = EmptyMap

NextBenchmark ==
    \/ \E s \in AnchorScripts : Start(1, s)
    \/ Reads(1)
    \/ Fetch(1)
    \/ StorePrices(1)
    \/ QuickLookup(1)
    \/ Remember(1)
    \/ Finish(1)

SpecBenchmark == InitBenchmark /\ [][NextBenchmark]_vars

\* Cycles that find no open position, of the scripts that go on without
\* one, on a portfolio that is empty or that the administrator clears
\* beside the cycles.
InitEmpty ==
    /\ Init
    /\ db.investments \in {EmptyMap, (1 :> PosAAPL)}

NextEmpty ==
    \/ \E s \in {"part002", "part003", "part009"} : Start(1, s)
    \/ Reads(1)
    \/ Fetch(1)
    \/ StorePrices(1)
    \/ ResetBenchmark(1)
    \/ ClearPriceCache(1)
    \/ QuickLookup(1)
    \/ Remember(1)
    \/ Finish(1)
    \/ clearAll
    \/ clearLands

SpecEmpty == InitEmpty /\ [][NextEmpty]_vars

\* Whether the benchmark of run r has been computed.
Computed(r) == run[r].bench.shape = "anchors"

\* C8: the calculator gives {0,0} for an anchor whose base capital or start
\* price is 0 or unresolved, and for all inputs, missing fields included,
\* every number it hands to benchmarkCache is finite: no NaN, no Infinity.
C8_FiniteBenchmark ==
    \A r \in Runs :
        Computed(r) =>
            /\ \A v \in BenchmarkNumbers(run[r].bench) : IsFinite(v)
            /\ \A v \in BenchmarkNumbers(db.benchmarkCache) : IsFinite(v)
            /\ (run[r].totals.totalInvested = Zero \/ ~JsGt(run[r].start["current"], Zero))
                   => run[r].bench.current = ZeroPair
            /\ ~JsGt(run[r].start["allTime"], Zero) => run[r].bench.allTime = ZeroPair

\* Sum of an integer-valued function over a finite set.
RECURSIVE SumOver(_, _)
SumOver(f, S) ==
    IF S = {} THEN 0
    ELSE LET x == CHOOSE y \in S : TRUE IN f[x] + SumOver(f, S \ {x})

\* Positions and snapshot entries with whole numbers in every field.
Whole(v) == v # Undefined /\ v.t = "num" /\ v.d = 1

WellFormed(investments, snapshot) ==
    /\ \A i \in DOMAIN investments : Whole(investments[i].shares) /\ Whole(investments[i].price)
    /\ \A sym \in DOMAIN snapshot : Whole(snapshot[sym])

SumCost(investments) ==
    SumOver([i \in DOMAIN investments |-> investments[i].shares.n * investments[i].price.n],
            DOMAIN investments)

SumWorth(investments, snapshot) ==
    SumOver([i \in DOMAIN investments |->
                investments[i].shares.n
                    * (IF investments[i].symbol \in DOMAIN snapshot
                       THEN snapshot[investments[i].symbol].n ELSE 0)],
            DOMAIN investments)

SumPl(realized) ==
    SumOver([t \in DOMAIN realized |->
                IF realized[t].pl = Undefined THEN 0 ELSE realized[t].pl.n],
            DOMAIN realized)

\* C9: for every set of open positions, archived trades and snapshot, the
\* cycle computes totalInvested as the sum of shares*costPrice, currentValue
\* as the sum of shares*snapshot[symbol] with a missing entry counted as 0,
\* unrealizedPL = currentValue - totalInvested, realizedPL as the sum of pl
\* over archived trades, and allTimePL = realizedPL + unrealizedPL.
C9_Totals ==
    \A r \in Runs :
        (Computed(r) /\ WellFormed(run[r].investments, run[r].priceCache)) =>
            LET invested == SumCost(run[r].investments)
                worth == SumWorth(run[r].investments, run[r].priceCache)
                pl == SumPl(run[r].realized)
            IN  /\ run[r].totals.totalInvested = Num(invested)
                /\ run[r].totals.currentValue = Num(worth)
                /\ run[r].totals.unrealizedPL = Num(worth - invested)
                /\ run[r].totals.realizedPL = Num(pl)
                /\ run[r].totals.allTimePL = Num(pl + worth - invested)

\* A cycle has computed the totals of two lots of AAPL priced at 160 and of
\* two archived trades, one of which lacks its pl.
C9_Witness ==
    /\ run[1].pc = "done"
    /\ run[1].exit = "ok"
    /\ run[1].investments = (1 :> PosAAPL) @@ (2 :> PosEarly)
    /\ DOMAIN run[1].realized = TradeIds
    /\ run[1].priceCache = ("AAPL" :> Num(160))
    /\ run[1].totals = [totalInvested |-> Num(2200), currentValue |-> Num(2400),
                        unrealizedPL |-> Num(200), realizedPL |-> Num(200),
                        allTimePL |-> Num(400)]

\* The start price of the all-time anchor a run has: resolved, or as cached
\* when the run started.
AllTimeStart(rec) ==
    IF "allTime" \in DOMAIN rec.start THEN rec.start["allTime"]
    ELSE CachedPrice(rec.inceptionCache, Anchors(rec.script, rec.investments)[2])

\* C10: a cycle that finds zero open positions writes the current-strategy
\* anchor {0,0} whatever the archived history, and still computes the
\* all-time anchor: realized P&L of the archived trades over the fixed
\* starting capital, and the benchmark's return since the all-time start
\* price (when that price is known and no SPY quote failed).
C10_EmptyPortfolio ==
    \A r \in Runs :
        (run[r].pc = "done" /\ run[r].exit = "ok" /\ DOMAIN run[r].investments = {}) =>
            /\ run[r].bench.current = ZeroPair
            /\ db.benchmarkCache = run[r].bench
            /\ (JsGt(AllTimeStart(run[r]), Zero) /\ Get(run[r].fetched, "SPY") \notin {Zero}) =>
                   \E capital \in {INITIAL_CAPITAL, TOTAL_CAPITAL} :
                       run[r].bench.allTime.our
                           = Rat(SumPl(run[r].realized) * 100, capital)

(***************************************************************************)
(* The trade archiver: invocations of sellInvestment, one after the other, *)
(* on a store that takes their writes.                                     *)
(***************************************************************************)
\* The position of the archiver's example: 10 shares bought at 100.
PosExample == [symbol |-> "MSFT", shares |-> Num(10), price |-> Num(100), date |-> DS(3, 9, 2025)]

InitArchive ==
    /\ db \in [investments : InitInvestments \cup {(1 :> PosExample)},
               realized : {EmptyMap}, priceCache : {EmptyMap},
               inceptionCache : {EmptyInception}, benchmarkCache : {NoBenchmark},
               archivedTrades : {EmptyMap}]
    /\ run = [r \in Runs |-> IdleRun]
    /\ resolved = EmptyMap
    /\ sold = NoSale
    /\ calls = NoCalls
    /\ page = NoPage
    /\ isAdmin = TRUE

NextArchive == Sell({1}, TradeIds, SellPriceInputs, SellDateInputs, {TRUE})

SpecArchive == InitArchive /\ [][NextArchive]_vars

\* A sell price that is a positive finite number, a date text that is a
\* calendar date dd/mm/yyyy, and the quarter of a month.
ValidPrice(input) == ~input.null /\ input.numeric /\ IsFinite(input.v) /\ input.v.n > 0

CalendarDate(input) ==
    /\ ~input.null
    /\ input.text.pre = ""
    /\ input.text.sep = "/"
    /\ input.text.b \in 1..12
    /\ input.text.a \in 1..DaysIn(input.text.c, input.text.b)

QuarterOfMonth(m) ==
    IF m \in 1..3 THEN "Q1" ELSE IF m \in 4..6 THEN "Q2"
    ELSE IF m \in 7..9 THEN "Q3" ELSE "Q4"

BucketOf(ds) == [year |-> Num(ds.c), quarter |-> QuarterOfMonth(ds.b)]

Without(map, k) == [x \in DOMAIN map \ {k} |-> map[x]]

\* C11: a call of sellInvestment on an existing position (whole shares and
\* cost) with a positive finite sell price and a calendar sell date appends
\* exactly one trade, under the bucket <year>/<quarter> of the sell date and
\* to no other bucket, that carries the position's symbol, shares, buy price
\* and buy date and pl = (sellPrice - costPrice) * shares; afterwards the
\* position is gone from investments and the other positions are as before.
\* Step by step: the callback sends that trade to that bucket, the push
\* appends it and nothing else, the remove takes that position and no other.
C11_ArchiveAppendsOne ==
    [][\A c \in Calls :
          /\ \A p \in SellPriceInputs, d \in SellDateInputs, accepts \in BOOLEAN :
                ( /\ calls[c].pc = "reading"
                  /\ calls[c].id \in DOMAIN db.investments
                  /\ Whole(db.investments[calls[c].id].shares)
                  /\ Whole(db.investments[calls[c].id].price)
                  /\ ValidPrice(p) /\ CalendarDate(d)
                  /\ sellCallback(c, p, d, accepts) ) =>
                    LET inv == db.investments[calls[c].id]
                        new == calls'[c].trade
                    IN  /\ calls'[c].pc = "pushing"
                        /\ calls'[c].path = BucketOf(d.text)
                        /\ new.symbol = inv.symbol /\ new.shares = inv.shares
                        /\ new.buyPrice = inv.price /\ new.buyDate = inv.date
                        /\ new.sellPrice = p.v /\ new.sellDate = d.text
                        /\ Whole(p.v) => new.pl = Num((p.v.n - inv.price.n) * inv.shares.n)
          /\ (calls[c].pc = "pushing" /\ pushLands(c, TRUE)) =>
                LET bucket == calls[c].path
                    before == IF bucket \in DOMAIN db.archivedTrades
                              THEN db.archivedTrades[bucket] ELSE <<>>
                IN  /\ DOMAIN db.archivedTrades' = DOMAIN db.archivedTrades \cup {bucket}
                    /\ \A b \in DOMAIN db.archivedTrades \ {bucket} :
                           db.archivedTrades'[b] = db.archivedTrades[b]
                    /\ db.archivedTrades'[bucket] = Append(before, calls[c].trade)
                    /\ db.investments' = db.investments
          /\ (calls[c].pc = "removing" /\ removeLands(c, TRUE)) =>
                /\ db.investments' = Without(db.investments, calls[c].id)
                /\ db.archivedTrades' = db.archivedTrades]_vars

\* The example: 10 shares bought at 100 and sold at 120 on 15/11/2025 are
\* archived with pl 200 under 2025/Q4, and the position is gone.
C11_Witness ==
    /\ \A c \in Calls : calls[c].pc \in {"idle", "done"}
    /\ sold.inv = PosExample
    /\ sold.alert = "Trade archived to"
    /\ sold.path = [year |-> Num(2025), quarter |-> "Q4"]
    /\ DOMAIN db.archivedTrades = {[year |-> Num(2025), quarter |-> "Q4"]}
    /\ Len(db.archivedTrades[[year |-> Num(2025), quarter |-> "Q4"]]) = 1
    /\ db.archivedTrades[[year |-> Num(2025), quarter |-> "Q4"]][1].sellPrice = Num(120)
    /\ db.archivedTrades[[year |-> Num(2025), quarter |-> "Q4"]][1].pl = Num(200)
    /\ db.investments = EmptyMap

\* C12: every archived trade is stored under <year>/<quarter> of its sell
\* date, the quarter being Q1 for months 1-3, Q2 for 4-6, Q3 for 7-9 and Q4
\* for 10-12, and a trade whose sell date dd/mm/yyyy has a month outside
\* 1..12 is stored under no quarter.
C12_BucketOfSellDate ==
    \A slot \in TradeSlots(db.archivedTrades) :
        LET ds == db.archivedTrades[slot[1]][slot[2]].sellDate
        IN  (ds.pre = "" /\ ds.sep = "/") =>
                /\ ds.b \in 1..12
                /\ slot[1] = BucketOf(ds)

\* C13: a call of sellInvestment on an existing position with a sell price
\* that is not a positive finite number shows an alert, writes no trade and
\* leaves the position in investments: its callback ends the call with an
\* alert and sends no write.
C13_RejectsBadPrice ==
    [][\A c \in Calls, p \in SellPriceInputs, d \in SellDateInputs, accepts \in BOOLEAN :
          ( /\ calls[c].pc = "reading"
            /\ calls[c].id \in DOMAIN db.investments
            /\ ~ValidPrice(p)
            /\ sellCallback(c, p, d, accepts) ) =>
              /\ sold'.alert \notin {"", "Trade archived to"}
              /\ calls'[c].pc = "done"]_vars

\* C14: a call of sellInvestment on an existing position with a valid sell
\* price and a sell date that is no calendar date (another separator, an
\* empty text, a cancelled prompt) shows an alert, writes no trade and
\* leaves the position in investments: its callback ends the call with an
\* alert and sends no write.
C14_RejectsBadDate ==
    [][\A c \in Calls, p \in SellPriceInputs, d \in SellDateInputs, accepts \in BOOLEAN :
          ( /\ calls[c].pc = "reading"
            /\ calls[c].id \in DOMAIN db.investments
            /\ ValidPrice(p)
            /\ ~CalendarDate(d)
            /\ sellCallback(c, p, d, accepts) ) =>
              /\ calls'[c].pc = "done"
              /\ sold'.alert \notin {"", "Trade archived to"}]_vars

\* C15: a call of sellInvestment with an id that is not in investments
\* changes nothing in the store and shows an alert: its callback sends no
\* write and ends the call with an alert.
C15_MissingPosition ==
    [][\A c \in Calls, p \in SellPriceInputs, d \in SellDateInputs, accepts \in BOOLEAN :
          ( /\ calls[c].pc = "reading"
            /\ calls[c].id \notin DOMAIN db.investments
            /\ sellCallback(c, p, d, accepts) ) =>
              /\ calls'[c].pc = "done"
              /\ sold'.alert # ""]_vars

(***************************************************************************)
(* The archiver beside the cycles that compute the benchmark: positions    *)
(* are sold at a valid price and date, the store taking the writes.        *)
(***************************************************************************)
NextRealized ==
    \/ \E s \in AnchorScripts : Start(1, s)
    \/ Reads(1)
    \/ Fetch(1)
    \/ StorePrices(1)
    \/ QuickLookup(1)
    \/ Remember(1)
    \/ Finish(1)
    \/ Sell({1}, TradeIds, {PriceText(Num(120))}, {DateText(DS(15, 11, 2025))}, {TRUE})

SpecRealized == InitBenchmark /\ [][NextRealized]_vars

\* Sum of pl over the trades sellInvestment has stored.
ArchivedPl(archive) ==
    SumOver([slot \in TradeSlots(archive) |-> archive[slot[1]][slot[2]].pl.n],
            TradeSlots(archive))

\* C16: the realizedPL a cycle computes is the sum of pl over every archived
\* trade, the trades sellInvestment stored before the cycle included (whole
\* numbers of pl; a trade without pl counts 0).
C16_RealizedCoversArchive ==
    [][\A accepts \in BOOLEAN :
          ( /\ WriteBenchmark(1, accepts)
            /\ \A slot \in TradeSlots(db.archivedTrades) :
                   Whole(db.archivedTrades[slot[1]][slot[2]].pl) ) =>
              run'[1].totals.realizedPL =
                  Num(SumPl(run[1].realized) + ArchivedPl(db.archivedTrades))]_vars

(***************************************************************************)
(* The price snapshot under failing fetches: a merging script and the      *)
(* scripts that build the snapshot anew, sequentially (update-script.js)   *)
(* and concurrently (part_006).                                            *)
(***************************************************************************)
SnapshotScripts == {"part004", "update1", "part006"}

NextSnapshot ==
    \/ \E s \in SnapshotScripts : Start(1, s)
    \/ Reads(1)
    \/ ReadPriceCache(1)
    \/ Fetch(1)
    \/ StorePrices(1)
    \/ ReadInceptionCache(1)
    \/ QuickLookup(1)
    \/ Remember(1)
    \/ Finish(1)

SpecSnapshot == InitMerge /\ [][NextSnapshot]_vars

\* C17: when a cycle writes the snapshot, a symbol that had no entry before
\* and whose fetch failed (transport error, non-success status, no price or
\* price 0) has no entry in the written snapshot, and no entry written is 0
\* or otherwise non-positive.
C17_NoEntryForFailedFetch ==
    [][\A r \in Runs :
          StoresPrices(r) =>
              /\ \A sym \in DOMAIN run[r].fetched :
                     (sym \notin DOMAIN db.priceCache /\ ~JsGt(run[r].fetched[sym], Zero))
                         => sym \notin DOMAIN db'.priceCache
              /\ \A sym \in DOMAIN db'.priceCache : JsGt(db'.priceCache[sym], Zero)]_vars

\* C18: a cycle that found no open position removes no symbol from the
\* price snapshot: no step of it takes a symbol with a positive price out
\* of priceCache or leaves it without a positive price.
C18_EmptyCycleKeepsSnapshot ==
    [][\A r \in Runs :
          (Active(r) /\ DOMAIN run[r].investments = {}) =>
              \A sym \in DOMAIN db.priceCache :
                  JsGt(db.priceCache[sym], Zero) =>
                      /\ sym \in DOMAIN db'.priceCache
                      /\ JsGt(db'.priceCache[sym], Zero)]_vars

\* The symbols of the open positions a run read, and the symbols whose
\* quote it has requested so far.
PositionSymbols(rec) == { rec.investments[i].symbol : i \in DOMAIN rec.investments }

Requested(rec) == DOMAIN rec.fetched \cup rec.inflight

\* C19: the symbols whose quote a cycle requests are the symbols of the open
\* positions plus SPY: it requests no other symbol, and once its price
\* phase is over it has requested every one of them, SPY included, also
\* when there is no open position.
C19_RequestedSymbols ==
    \A r \in Runs :
        run[r].script # "" =>
            /\ Requested(run[r]) \subseteq PositionSymbols(run[r]) \cup {"SPY"}
            /\ run[r].pc \notin {"readCache", "fetch"} =>
                   Requested(run[r]) = PositionSymbols(run[r]) \cup {"SPY"}

(***************************************************************************)
(* The batched price update (part_000, part_007) on portfolios of more     *)
(* symbols than one batch holds.                                           *)
(***************************************************************************)
\* The most symbols a portfolio of the batched update holds.
MaxSymbols == 11

Tickers ==
    << "AAPL", "MSFT", "AMZN", "GOOG", "META", "NVDA", "TSLA", "NFLX", "INTC", "IBM",
       "ORCL", "CSCO", "ADBE" >>

\* One position in each of the first n tickers.
Portfolio(n) ==
    [i \in 1..n |-> [symbol |-> Tickers[i], shares |-> Num(1), price |-> Num(100),
                     date |-> DS(6, 10, 2025)]]

\* Portfolios of one full batch, of one symbol more, and of the most symbols.
InitBatch ==
    /\ db \in [investments : { Portfolio(n) : n \in {batchSize, batchSize + 1, MaxSymbols} },
               realized : {EmptyMap}, priceCache : {EmptyMap},
               inceptionCache : {EmptyInception}, benchmarkCache : {NoBenchmark},
               archivedTrades : {EmptyMap}]
    /\ run = [r \in Runs |-> IdleRun]
    /\ resolved = EmptyMap
    /\ sold = NoSale
    /\ calls = NoCalls
    /\ page = NoPage
    /\ isAdmin = TRUE

\* A quote that comes with a price, or a non-success status.
FetchBatch(r) ==
    \E i \in 1..Len(Tickers), resp \in { [kind |-> "ok", price |-> Num(160)],
                                         [kind |-> "notok", price |-> Undefined] } :
        FetchComplete(r, Tickers[i], resp)

\* One invocation of the update job.
NextBatch ==
    \/ \E s \in BatchScripts : run[1].pc = "idle" /\ Start(1, s)
    \/ FetchBatch(1)
    \/ Tick(1)
    \/ Wake(1)
    \/ StorePrices(1)

SpecBatch == InitBatch /\ [][NextBatch]_vars

\* The batches of n symbols: n / 5, rounded up.
BatchCount(n) == (n + 4) \div 5

\* C20: in the batched price update at most 5 calls are in flight; a call
\* starts only when no call is in flight and, unless it belongs to the first
\* batch, a pause of 1000 ms has elapsed since the previous batch completed;
\* a pause begins only while symbols are waiting, so a finished update of n
\* symbols has taken one pause less than it has batches.
C20_BatchesAndPauses ==
    /\ [](\A r \in Runs :
             run[r].script \in BatchScripts =>
                 /\ Cardinality(run[r].inflight) <= 5
                 /\ run[r].pc = "sleep" => (run[r].inflight = {} /\ Len(run[r].todo) > 0)
                 /\ (run[r].pc = "done" /\ DOMAIN run[r].investments # {}) =>
                        run[r].pauses = BatchCount(Cardinality(PositionSymbols(run[r]))) - 1)
    /\ [][\A r \in Runs :
             (run'[r].script \in BatchScripts /\ ~(run'[r].inflight \subseteq run[r].inflight)) =>
                 /\ run[r].inflight = {}
                 /\ \/ run[r].pc \in {"idle", "done"}
                    \/ run[r].pc = "sleep" /\ run[r].waited >= 1000]_vars

\* An update of eleven symbols is in its third batch after two pauses.
C20_Witness ==
    /\ run[1].script \in BatchScripts
    /\ Cardinality(PositionSymbols(run[1])) = 11
    /\ run[1].pc = "fetch"
    /\ run[1].pauses = 2
    /\ Cardinality(DOMAIN run[1].fetched) = 10

\* C21: fetchWithRetry makes at most 3 attempts for a call: an attempt that
\* fails, unless it is the third, is followed by a wait of 1000 ms before
\* the next attempt; the first response obtained ends the call (the symbol
\* is not requested again); the third failure is reported (it ends the
\* cycle through main's catch) and no fourth attempt is made.
C21_BoundedRetry ==
    /\ [](\A r \in Runs : run[r].script = "update2" => run[r].attempt + 1 <= 3)
    /\ [][\A r \in Runs :
             run[r].script = "update2" =>
                 /\ (run[r].pc = "fetch" /\ run'[r].attempt = run[r].attempt + 1) =>
                        /\ run'[r].pc = "backoff" /\ run'[r].waited = 0
                        /\ run'[r].inflight = run[r].inflight
                 /\ (run[r].pc = "backoff" /\ run'[r].pc # "backoff") =>
                        /\ run[r].waited >= 1000
                        /\ run'[r].pc = "fetch" /\ run'[r].attempt = run[r].attempt
                 /\ (run[r].pc = "fetch" /\ DOMAIN run'[r].fetched # DOMAIN run[r].fetched) =>
                        \A sym \in DOMAIN run'[r].fetched \ DOMAIN run[r].fetched :
                            /\ sym \notin run'[r].inflight
                            /\ sym \notin Range(run'[r].todo)
                            /\ run'[r].attempt = 0
                 /\ (run[r].pc = "fetch" /\ run[r].attempt = 2
                       /\ run'[r] # run[r] /\ run'[r].fetched = run[r].fetched) =>
                        /\ run'[r].pc = "done"
                        /\ run'[r].exit = "fatal" /\ run'[r].cause = "provider"]_vars

\* The third attempt of a quote request is in flight, after two failures and
\* the wait that follows the second.
C21_Witness ==
    /\ run[1].script = "update2"
    /\ run[1].pc = "fetch"
    /\ run[1].attempt = 2
    /\ run[1].waited >= 1000

\* C22: a cycle writes priceCache at most once; the document changes only
\* by that write, which is made when no quote request of the cycle is in
\* flight or waiting and every symbol of the cycle has been requested, and
\* which stores the cycle's complete in-memory snapshot.
C22_SnapshotWrittenOnce ==
    /\ [](\A r \in Runs : run[r].writes <= 1)
    /\ [][\A r \in Runs :
             (db'.priceCache # db.priceCache \/ run'[r].writes > run[r].writes) =>
                 \E w \in Runs :
                     /\ StoresPrices(w)
                     /\ run[w].inflight = {}
                     /\ run[w].todo = <<>>
                     /\ DOMAIN run[w].fetched =
                            Range(SymbolsOf(run[w].script, run[w].investments))
                     /\ db'.priceCache = run[w].priceCache
                     /\ run'[w].writes = 1]_vars

\* A cycle has written, once, the snapshot of its two quotes.
C22_Witness ==
    /\ run[1].writes = 1
    /\ Cardinality(DOMAIN run[1].fetched) = 2
    /\ DOMAIN run[1].priceCache = {"AAPL", "SPY"}
    /\ db.priceCache = run[1].priceCache

(***************************************************************************)
(* Settings and exit codes: the batched price updates (part_000, part_007) *)
(* and the scripts that fetch from Finnhub (part_001, update-script.js),   *)
(* started with every combination of settings, on a store whose reads and  *)
(* writes can fail.                                                        *)
(***************************************************************************)
ConfigScripts == {"part000", "part007", "part001a", "update1"}

\* A quote completes; a request sent without an API key is refused.
FetchKeyed(r) ==
    \E sym \in Symbols, resp \in { [kind |-> "ok", price |-> Num(160)],
                                   [kind |-> "notok", price |-> Undefined] } :
        /\ run[r].config.apiKey \/ resp.kind = "notok"
        /\ FetchComplete(r, sym, resp)

NextConfig ==
    \/ \E s \in ConfigScripts, cfg \in Configs : StartWith(1, s, cfg)
    \/ \E s \in ConfigScripts : StoreReadFails(1, s)
    \/ FetchKeyed(1)
    \/ StorePrices(1)
    \/ StoreWriteFails(1)
    \/ ReadInceptionCache(1)
    \/ QuickLookup(1)
    \/ Remember(1)
    \/ Finish(1)

SpecConfig == InitMerge /\ [][NextConfig]_vars

\* C23: a configuration error (missing or invalid store credentials, missing
\* store URL, missing provider API key) is fatal and aborts the run before
\* any side effect: a run started with such settings has ended with a
\* non-zero exit code, has sent no provider request and has written no
\* store document.
C23_ConfigErrorFailsFast ==
    /\ [](\A r \in Runs :
             run[r].config # GoodConfig =>
                 /\ run[r].pc = "done" /\ run[r].exit = "fatal"
                 /\ Requested(run[r]) = {}
                 /\ run[r].res = <<>>)
    /\ [][\A r \in Runs : run'[r].config # GoodConfig => db' = db]_vars

\* C24: a run ends with exit code 0 when the cycle completes or takes the
\* no-positions early exit, and with a non-zero exit code when it ends on a
\* configuration error or an unrecoverable error (a store read or write
\* that fails included).
C24_ExitCodes ==
    \A r \in Runs :
        run[r].pc = "done" =>
            run[r].exit = IF run[r].cause \in {"", "return"} THEN "ok" ELSE "fatal"

(***************************************************************************)
(* Rate limits: the providers answer a request with a price or a close, or *)
(* with their rate-limit response (a 429 status from the quote service, a  *)
(* Note in the body from the daily-close service).                         *)
(***************************************************************************)
LimitScripts == {"part005", "part009", "update1"}

\* HTTP 429 Too Many Requests: r.ok is false.
LimitResponse == [kind |-> "limit", price |-> Undefined]

FetchLimited(r) ==
    \E sym \in Symbols, resp \in { [kind |-> "ok", price |-> Num(160)], LimitResponse } :
        FetchComplete(r, sym, resp)

\* Lookups whose every answer is the rate-limit note or a series with the close.
LimitSequences ==
    { q \in HistSequences : \A j \in DOMAIN q : q[j].kind = "note" \/ q[j].close # Undefined }

LookupLimited(r) == \E resps \in LimitSequences : Resolve(r, resps)

NextLimit ==
    \/ \E s \in LimitScripts : Start(1, s)
    \/ Reads(1)
    \/ ReadPriceCache(1)
    \/ FetchLimited(1)
    \/ StorePrices(1)
    \/ LookupLimited(1)
    \/ Remember(1)
    \/ Finish(1)

SpecLimit == InitMerge /\ [][NextLimit]_vars

\* C25: a rate-limit response is a transient failure: the snapshot a cycle
\* writes holds no zero for a symbol whose quote was rate-limited, the
\* inception cache never holds a zero, and an anchor whose lookup was
\* rate-limited has no entry afterwards, so that the next cycle requests it
\* again.
C25_RateLimitTransient ==
    /\ [](/\ \A k \in DOMAIN db.inceptionCache.keyed : db.inceptionCache.keyed[k] # Zero
          /\ db.inceptionCache.spyStartPrice # Zero)
    /\ [][\A r \in Runs :
            /\ (run[r].pc = "storePrices" /\ run'[r].pc # "storePrices") =>
                   \A sym \in DOMAIN run[r].fetched :
                       run[r].fetched[sym] = Zero => Get(db'.priceCache, sym) # Zero
            /\ (Resolves(r) /\ ~Resolution(r).hit /\ Resolution(r).price = Zero) =>
                   ~CacheHit(db'.inceptionCache, CurrentAnchor(run[r]))]_vars

(***************************************************************************)
(* The anchor of the current-strategy window.                              *)
(***************************************************************************)
\* The earliest of the open dates of a portfolio, as a calendar date.
MinOpenDate(investments) ==
    LET days == { AnchorDate(investments[i].date) : i \in DOMAIN investments }
    IN  CHOOSE d \in days : \A o \in days : ~JsGt(TimeValue(d), TimeValue(o))

\* C26: the anchor date of the current-strategy window is the minimum open
\* date over the open positions the cycle read: the first anchor a cycle
\* resolves, whose start price the benchmark uses, is that date, whatever
\* positions were closed or removed before the cycle.
C26_SlidingAnchor ==
    \A r \in Runs :
        (DOMAIN run[r].investments # {} /\ Len(run[r].res) >= 1) =>
            /\ AnchorDate(run[r].res[1].dateStr) = MinOpenDate(run[r].investments)
            /\ run[r].start[Anchors(run[r].script, run[r].investments)[1].name]
                   = run[r].res[1].price

(***************************************************************************)
(* The benchmark over the merged snapshot: the merging scripts on the      *)
(* portfolio AAPL 10 @ 150, MSFT 5 @ 300.                                  *)
(***************************************************************************)
PosMSFT == [symbol |-> "MSFT", shares |-> Num(5), price |-> Num(300), date |-> DS(6, 10, 2025)]

InitValuation ==
    /\ db \in [investments : { (1 :> PosAAPL) @@ (2 :> PosMSFT) },
               realized : {EmptyMap},
               priceCache : { EmptyMap, ("MSFT" :> Num(290)),
                              ("AAPL" :> Num(155)) @@ ("MSFT" :> Num(290)) },
               inceptionCache : {EmptyInception}, benchmarkCache : {NoBenchmark},
               archivedTrades : {EmptyMap}]
    /\ run = [r \in Runs |-> IdleRun]
    /\ resolved = EmptyMap
    /\ sold = NoSale
    /\ calls = NoCalls
    /\ page = NoPage
    /\ isAdmin = TRUE

NextValuation ==
    \/ \E s \in MergeScripts : run[1].pc = "idle" /\ Start(1, s)
    \/ ReadPriceCache(1)
    \/ Fetch(1)
    \/ StorePrices(1)
    \/ QuickLookup(1)
    \/ Finish(1)

SpecValuation == InitValuation /\ [][NextValuation]_vars

\* C27: the figures of a cycle are computed from the merged snapshot: the
\* value of the positions is the sum of shares times the merged price (the
\* price fetched when positive, else the prior price, else 0), and the
\* return written is the unrealized P/L over the invested amount in per
\* cent.  AAPL 10 @ 150 and MSFT 5 @ 300 with AAPL fetched at 160, the fetch
\* of MSFT failed and MSFT at 290 before give 3000, 3050 and 50.
C27_ValuedAtMergedSnapshot ==
    \A r \in Runs :
        run[r].bench.shape # "none" =>
            LET merged == Merged(run[r].prior, run[r].fetched)
                invested == SumCost(run[r].investments)
                worth == SumWorth(run[r].investments, merged)
            IN  /\ run[r].totals.totalInvested = Num(invested)
                /\ run[r].totals.currentValue = Num(worth)
                /\ run[r].totals.unrealizedPL = Num(worth - invested)
                /\ run[r].bench.ourReturn \in {Zero, Rat((worth - invested) * 100, invested)}
                /\ (/\ run[r].fetched["AAPL"] = Num(160)
                    /\ run[r].fetched["MSFT"] = Zero
                    /\ DOMAIN run[r].prior = {"MSFT"}) =>
                       /\ run[r].totals.totalInvested = Num(3000)
                       /\ run[r].totals.currentValue = Num(3050)
                       /\ run[r].totals.unrealizedPL = Num(50)

\* A merging cycle has ended on the example: AAPL fetched at 160, the fetch
\* of MSFT failed, MSFT at 290 before, and a return written over 50 of 3000.
C27_Witness ==
    /\ run[1].pc = "done"
    /\ run[1].script \in MergeScripts
    /\ run[1].prior = ("MSFT" :> Num(290))
    /\ run[1].fetched["AAPL"] = Num(160)
    /\ run[1].fetched["MSFT"] = Zero
    /\ run[1].totals.currentValue = Num(3050)
    /\ run[1].totals.unrealizedPL = Num(50)
    /\ db.benchmarkCache.ourReturn = Rat(5, 3)

(***************************************************************************)
(* Termination.  The steps of a cycle that wait for nothing but the clock  *)
(* and the store are taken sooner or later (weak fairness).  A step that   *)
(* completes a provider request is taken when the provider answers, and    *)
(* the provider owes no answer: fetch(url) is called with no timeout and   *)
(* no abort signal, so no step of the script ends a request that is not    *)
(* answered.                                                               *)
(***************************************************************************)
StallScripts == {"update2", "part004", "part009"}

\* The steps that depend on the script, the clock and the store alone.
OwnStep(r) ==
    \/ Reads(r)
    \/ ReadPriceCache(r)
    \/ Tick(r)
    \/ TryAgain(r)
    \/ StorePrices(r)
    \/ Remember(r)

\* Weak fairness of the steps of run r that need no provider.  Finish(r) is
\* enabled exactly when the run is about to write benchmarkCache, and it
\* leaves that position: its weak fairness is that the run is not there for
\* ever.
Fair(r) == WF_vars(OwnStep(r)) /\ []<>(run[r].pc # "benchmark")

\* The steps that take an answer of a provider.
ProviderStep(r) ==
    \/ Fetch(r)
    \/ Retry(r)
    \/ QuickLookup(r)

\* One invocation of a script on a portfolio of one or two lots.
InitStall ==
    /\ InitMerge
    /\ DOMAIN db.investments # {}
    /\ \A i \in DOMAIN db.investments : db.investments[i].shares # Undefined

NextStall ==
    \/ \E s \in StallScripts : run[1].pc = "idle" /\ Start(1, s)
    \/ OwnStep(1)
    \/ Finish(1)
    \/ ProviderStep(1)

SpecStall == InitStall /\ [][NextStall]_vars /\ Fair(1)

\* C28: every provider call is bounded by a timeout, so a cycle always
\* terminates: a cycle that has started reaches its end, also when a
\* provider never answers a request.
C28_CycleTerminates == Active(1) ~> run[1].pc = "done"

(***************************************************************************)
(* Overlapping cycles: two invocations, each of one of the scripts that    *)
(* cache start prices, interleaved step by step on one store.              *)
(***************************************************************************)
OverlapScripts == {"part009", "part006", "part001a"}

InitOverlap ==
    /\ InitResolver
    /\ DOMAIN db.investments # {}

\* Lookups that find a close on the anchor day, or none in the window.
PlainLookup(r) ==
    \E resps \in { <<NoClose>> } \cup { <<c>> : c \in CloseResponses } : Resolve(r, resps)

NextOverlap ==
    \E r \in Runs :
        \/ \E s \in OverlapScripts : run[r].pc = "idle" /\ Start(r, s)
        \/ Reads(r)
        \/ Quote(r)
        \/ StorePrices(r)
        \/ ReadInceptionCache(r)
        \/ PlainLookup(r)
        \/ Remember(r)
        \/ Finish(r)

SpecOverlap == InitOverlap /\ [][NextOverlap]_vars

\* The lookups the runs have made for a key that found a price, as
\* <<run, index>>, and the keys that hold a positive price in a cache.
Found(key) ==
    { <<r, j>> \in Runs \X (1..2) :
        /\ j \in DOMAIN run[r].res
        /\ run[r].res[j].key = key
        /\ ~run[r].res[j].hit
        /\ JsGt(run[r].res[j].price, Zero) }

LookupsOf(key) ==
    { <<r, j>> \in Runs \X (1..2) :
        /\ j \in DOMAIN run[r].res
        /\ run[r].res[j].key = key
        /\ run[r].res[j].tried # <<>> }

KeysOf(cache) == { e[1] : e \in PositiveEntries(cache) }

\* C29: overlapping cycles do not corrupt the inception cache: once the
\* cycles have ended, every key for which one of them found a price holds
\* a positive price that one of their lookups returned; no step removes the
\* entry of a key; and a key is looked up at most once per cycle, so the
\* overlap costs one redundant lookup at most.
C29_OverlapKeepsCache ==
    /\ [](\A r \in Runs : \A j \in DOMAIN run[r].res :
             LET key == run[r].res[j].key
             IN  /\ Cardinality(LookupsOf(key)) <= Cardinality(Runs)
                 /\ ((\A w \in Runs : ~Active(w)) /\ Found(key) # {}) =>
                        \E f \in Found(key) :
                            <<key, run[f[1]].res[f[2]].price>> \in PositiveEntries(db.inceptionCache))
    /\ [][KeysOf(db.inceptionCache) \subseteq KeysOf(db'.inceptionCache)]_vars

(***************************************************************************)
(* Archiving under interleaving: invocations of sellInvestment on the      *)
(* position of the example, every order of their steps, every outcome of   *)
(* their writes.                                                           *)
(***************************************************************************)
InitSelling ==
    /\ InitArchive
    /\ db.investments = (1 :> PosExample)

NextSelling ==
    \E c \in Calls :
        \/ calls[c].pc = "idle" /\ sellInvestment(c, 1)
        \/ \E p \in { PriceText(Num(120)), PriceText(Num(130)), WordsText },
              d \in { DateText(DS(15, 11, 2025)), DateText(DS(15, 2, 2025)), DateCancelled },
              accepts \in BOOLEAN :
               sellCallback(c, p, d, accepts)
        \/ \E ok \in BOOLEAN : pushLands(c, ok)
        \/ \E ok \in BOOLEAN : removeLands(c, ok)

SpecSelling == InitSelling /\ [][NextSelling]_vars

\* The archived trades of a position.
TradesOf(inv) ==
    { s \in TradeSlots(db.archivedTrades) :
        LET t == db.archivedTrades[s[1]][s[2]]
        IN  /\ t.symbol = inv.symbol /\ t.shares = inv.shares
            /\ t.buyPrice = inv.price /\ t.buyDate = inv.date }

\* C30: archiving neither loses nor duplicates a position: when no
\* invocation of sellInvestment is under way the position is in investments
\* with no archived trade, or out of investments with exactly one; and the
\* position is not removed before its trade is stored.
C30_ArchivedExactlyOnce ==
    /\ (\A c \in Calls : calls[c].pc \in {"idle", "done"}) =>
           IF 1 \in DOMAIN db.investments
           THEN TradesOf(PosExample) = {}
           ELSE Cardinality(TradesOf(PosExample)) = 1
    /\ 1 \notin DOMAIN db.investments => TradesOf(PosExample) # {}

(***************************************************************************)
(* The administrator flag of the page: sign-ins, sign-outs and role        *)
(* lookups in every order, beside the guarded handlers.                    *)
(***************************************************************************)
InitPage ==
    /\ db \in [investments : { EmptyMap, (1 :> PosAAPL) },
               realized : InitRealized, priceCache : {EmptyMap},
               inceptionCache : {EmptyInception}, benchmarkCache : {NoBenchmark},
               archivedTrades : {EmptyMap}]
    /\ run = [r \in Runs |-> IdleRun]
    /\ resolved = EmptyMap
    /\ sold = NoSale
    /\ calls = NoCalls
    /\ page = NoPage
    /\ isAdmin = FALSE

AuthStep ==
    \/ \E u \in Users : signIn(u)
    \/ \E l \in page.lookups, ok \in BOOLEAN : roleArrives(l, ok)
    \/ signOut

\* The administrator waits for the store before the next click: nothing the
\* page has sent is still on its way.  A refused call sends nothing and is
\* made at any time.
Answered ==
    /\ Landed
    /\ page.removes = <<>>
    /\ \A c \in Calls : calls[c].pc \in {"idle", "done"}

NextPage ==
    \/ AuthStep
    \/ (~isAdmin \/ Answered) /\ addInvestment(PosAAPL)
    \/ (~isAdmin \/ Answered) /\ clearAll
    \/ (~isAdmin \/ Answered) /\ deleteStock(1, TRUE)
    \/ (~isAdmin \/ Answered) /\ sellInvestment(1, 1)
    \/ \E i \in DOMAIN page.pushes : addLands(i, TRUE)
    \/ clearLands
    \/ \E i \in DOMAIN page.deletes : deleteLands(i, TRUE)
    \/ sellCallback(1, PriceText(Num(120)), DateText(DS(15, 11, 2025)), TRUE)
    \/ pushLands(1, TRUE)
    \/ removeLands(1, TRUE)

SpecPage == InitPage /\ [][NextPage]_vars

\* C31: isAdmin is true only while a user whose stored role is "admin" is
\* signed in; and isAdmin becomes true only when the role lookup of the
\* latest sign-in, whose user is still signed in, returns "admin": a lookup
\* started for an earlier sign-in never sets it.
C31_AdminOnlyWhileSignedIn ==
    /\ [](isAdmin => (page.user # NoUser /\ roleOf(page.user) = "admin"))
    /\ [][(~isAdmin /\ isAdmin') =>
              /\ page.user # NoUser
              /\ [uid |-> page.user, n |-> page.signins] \in page.lookups \ page'.lookups]_vars

\* What a handler sends: writes the store has taken, a read of
\* sellInvestment, pushes and removes on their way.
Sent == <<db, calls, page.pushes, page.deletes, page.removes>>

\* C32: a call of addInvestment, clearAll, deleteStock or sellInvestment made
\* while isAdmin is false writes and removes nothing: the call sends nothing
\* to the store, and investments, realized and archivedTrades are after the
\* call what they were before it.
C32_NonAdminWritesNothing ==
    [][~isAdmin =>
          /\ \A inv \in InputValues : addInvestment(inv) => UNCHANGED Sent
          /\ clearAll => UNCHANGED Sent
          /\ \A id \in TradeIds, confirms \in BOOLEAN :
                deleteStock(id, confirms) => UNCHANGED Sent
          /\ \A c \in Calls, id \in TradeIds :
                sellInvestment(c, id) => UNCHANGED Sent]_vars

\* clearAll and sellInvestment have been called by a non-admin on a store
\* that holds a position: both refused with their alert, the position kept.
C32_Witness ==
    /\ ~isAdmin
    /\ page.alert = "Only admins can clear data."
    /\ sold.alert = "Only admins can sell stocks."
    /\ db.investments # EmptyMap

(***************************************************************************)
(* Cycles that end without a current price of the benchmark symbol.        *)
(***************************************************************************)
MissingScripts == {"part006", "part001b", "part003"}

InitMissing ==
    /\ Init
    /\ db.investments \in {(1 :> PosAAPL), (1 :> PosAAPL) @@ (2 :> PosEarly)}
    /\ db.priceCache = EmptyMap

NextMissing ==
    \/ \E s \in MissingScripts : run[1].pc = "idle" /\ Start(1, s)
    \/ Reads(1)
    \/ Fetch(1)
    \/ StorePrices(1)
    \/ ReadInceptionCache(1)
    \/ QuickLookup(1)
    \/ Remember(1)
    \/ Finish(1)

SpecMissing == InitMissing /\ [][NextMissing]_vars

\* Whether the snapshot of run r holds no positive price of the benchmark.
Unpriced(r) == ~JsGt(OrZero(Get(run[r].priceCache, "SPY")), Zero)

\* C33: when the current price of SPY is missing from the snapshot or is 0,
\* the benchmark a cycle computes and writes is {0,0} for every anchor,
\* whatever the positions and the resolved start prices are.
C33_UnpricedBenchmarkZero ==
    \A r \in Runs :
        (run[r].bench.shape # "none" /\ Unpriced(r)) =>
            /\ \A v \in BenchmarkNumbers(run[r].bench) : v = Zero
            /\ \A v \in BenchmarkNumbers(db.benchmarkCache) : v = Zero

(***************************************************************************)
(* The holdings view of a signed-in administrator: one call of renderData, *)
(* changes of the investments node, value events and price callbacks in    *)
(* every order.                                                            *)
(***************************************************************************)
InitRender ==
    /\ db \in [investments : { (1 :> PosAAPL), (1 :> PosAAPL) @@ (2 :> PosEarly) },
               realized : {EmptyMap}, priceCache : {EmptyMap},
               inceptionCache : {EmptyInception}, benchmarkCache : {NoBenchmark},
               archivedTrades : {EmptyMap}]
    /\ run = [r \in Runs |-> IdleRun]
    /\ resolved = EmptyMap
    /\ sold = NoSale
    /\ calls = NoCalls
    /\ page = [NoPage EXCEPT !.user = "ahad", !.signins = 1]
    /\ isAdmin = TRUE

LivePrices == {Zero, Num(160)}

PriceCallback ==
    \E n \in DOMAIN page.renders, id \in TradeIds, price \in LivePrices :
        priceArrives(n, id, price)

NextRender ==
    \/ ~page.listenersAttached /\ renderData
    \/ \E l \in DOMAIN page.listeners.investments : valueEvent(l)
    \/ PriceCallback
    \/ \E id \in TradeIds, confirms \in BOOLEAN : deleteStock(id, confirms)
    \/ \E i \in DOMAIN page.deletes, ok \in BOOLEAN : deleteLands(i, ok)

SpecRender == InitRender /\ [][NextRender]_vars

\* Every price callback of every value event has been made.
AllArrived ==
    /\ page.renders # <<>>
    /\ \A n \in DOMAIN page.renders : page.renders[n].pending = {}

\* C34: once all price callbacks have completed, the holdings table has
\* exactly one row per position of the most recent snapshot and the last
\* updateSummary call carried the totals of that snapshot, whatever the
\* order of value events and price callbacks was.
C34_TableShowsLatestSnapshot ==
    AllArrived =>
        LET last == page.renders[Len(page.renders)]
        IN  /\ Len(page.rows) = Cardinality(DOMAIN last.data)
            /\ Range(page.rows) = DOMAIN last.data
            /\ page.summary = IF DOMAIN last.data = {} THEN Summary(Zero, Zero)
                              ELSE Summary(totalInvested(last.data), last.totalValue)

(***************************************************************************)
(* The listeners of the holdings view across sign-ins and sign-outs.       *)
(***************************************************************************)
NextListeners ==
    \/ AuthStep
    \/ renderData
    \/ \E l \in DOMAIN page.listeners.investments : valueEvent(l)

SpecListeners == InitPage /\ [][NextListeners]_vars

\* C35: at any time at most one value listener is registered on investments
\* and at most one on realized, whatever renderData calls, sign-ins and
\* sign-outs came before.
C35_OneListenerPerNode ==
    /\ Len(page.listeners.investments) <= 1
    /\ page.listeners.realized <= 1

(***************************************************************************)
(* Quotes requested together: the order in which they complete.            *)
(***************************************************************************)
OrderScripts == {"part005", "part000", "part009"}

NextOrder ==
    \/ \E s \in OrderScripts : run[1].pc = "idle" /\ Start(1, s)
    \/ Reads(1)
    \/ ReadPriceCache(1)
    \/ Fetch(1)
    \/ StorePrices(1)
    \/ QuickLookup(1)
    \/ Remember(1)
    \/ Finish(1)

SpecOrder == InitValuation /\ [][NextOrder]_vars

\* The snapshot the outcomes of a cycle determine: the object the script
\* starts from (the stored snapshot for part_005, an empty object otherwise)
\* with every positive price fetched.
SnapshotOf(rec) ==
    Merged(IF rec.script \in MergeScripts THEN rec.prior ELSE EmptyMap, rec.fetched)

\* C36: the snapshot and the benchmark a cycle writes do not depend on the
\* order in which quotes requested together complete: two completions in
\* either order leave the cycle in the same state, the snapshot after the
\* price phase is the one the fetch outcomes determine, and the benchmark is
\* the one computed from it.
C36_CompletionOrderIrrelevant ==
    \A r \in Runs :
        /\ run[r].pc = "fetch" =>
               \A a, b \in run[r].inflight : \A ra, rb \in QuoteResponses :
                   a # b => Completed(Completed(run[r], a, ra), b, rb)
                            = Completed(Completed(run[r], b, rb), a, ra)
        /\ run[r].pc \in {"storePrices", "resolve", "cacheInception", "benchmark", "done"}
               => run[r].priceCache = SnapshotOf(run[r])
        /\ (run[r].pc = "done" /\ run[r].bench.shape # "none")
               => /\ db.priceCache = SnapshotOf(run[r])
                  /\ db.benchmarkCache
                        = Benchmark(run[r].script, run[r].investments, run[r].realized,
                                    SnapshotOf(run[r]), run[r].start)

\* A cycle that requested three quotes together has ended: AAPL and SPY
\* were answered with a price, MSFT failed and keeps its stored price, and
\* the snapshot and a non-zero benchmark are written.
C36_Witness ==
    /\ run[1].script = "part005"
    /\ run[1].pc = "done"
    /\ run[1].prior = ("MSFT" :> Num(290))
    /\ run[1].fetched = ("AAPL" :> Num(160)) @@ ("MSFT" :> Zero) @@ ("SPY" :> Num(160))
    /\ db.priceCache = ("AAPL" :> Num(160)) @@ ("MSFT" :> Num(290)) @@ ("SPY" :> Num(160))
    /\ db.benchmarkCache.shape = "single"
    /\ db.benchmarkCache.spyReturn # Zero

(***************************************************************************)
(* Two merging cycles that overlap on one store.                           *)
(***************************************************************************)
InitRace ==
    /\ db \in [investments : { (1 :> PosAAPL) },
               realized : {EmptyMap},
               priceCache : { ("MSFT" :> Num(290)),
                              ("AAPL" :> Num(155)) @@ ("MSFT" :> Num(290)) },
               inceptionCache : {EmptyInception}, benchmarkCache : {NoBenchmark},
               archivedTrades : {EmptyMap}]
    /\ run = [r \in Runs |-> IdleRun]
    /\ resolved = EmptyMap
    /\ sold = NoSale
    /\ calls = NoCalls
    /\ page = NoPage
    /\ isAdmin = TRUE

NextRace ==
    \E r \in Runs :
        \/ \E s \in MergeScripts : run[r].pc = "idle" /\ Start(r, s)
        \/ ReadPriceCache(r)
        \/ Fetch(r)
        \/ StorePrices(r)
        \/ PlainLookup(r)
        \/ Finish(r)

SpecRace == InitRace /\ [][NextRace]_vars

\* Whether run r has written its snapshot.
Wrote(r) == run[r].writes > 0

\* C37: when two merging cycles overlap (both read priceCache before either
\* writes it), every symbol that held a positive price before they started
\* holds a positive price once both have written, in every interleaving.
C37_OverlapKeepsPositivePrices ==
    (Wrote(1) /\ Wrote(2) /\ run[1].prior = run[2].prior) =>
        \A sym \in DOMAIN run[1].prior :
            JsGt(run[1].prior[sym], Zero) => JsGt(Get(db.priceCache, sym), Zero)

\* Both cycles read the snapshot AAPL 155, MSFT 290 before either wrote, as
\* each has since written a price the other did not read; both have ended.
C37_Witness ==
    /\ run[1].pc = "done" /\ run[2].pc = "done"
    /\ run[1].script = "part004" /\ run[2].script = "part005"
    /\ run[1].prior = ("AAPL" :> Num(155)) @@ ("MSFT" :> Num(290))
    /\ run[2].prior = run[1].prior
    /\ run[1].fetched = ("AAPL" :> Num(160)) @@ ("SPY" :> Zero)
    /\ run[2].fetched = ("AAPL" :> Zero) @@ ("SPY" :> Num(160))
    /\ db.priceCache = ("AAPL" :> Num(160)) @@ ("MSFT" :> Num(290))

(***************************************************************************)
(* The configured anchor keys of part_009 as lookup dates.                 *)
(***************************************************************************)
\* The lookups run r made for one of the configured keys on a cache miss.
ConfiguredLookups(r) ==
    { i \in DOMAIN run[r].res :
        /\ run[r].script = "part009"
        /\ ~run[r].res[i].hit
        /\ run[r].res[i].key \in {Key0510, Key1908} }

\* C38: on a cache miss for a configured key dd-mm-yyyy the string handed to
\* fetchHistoricalPrice is in the format it parses (day/month/year split on
\* '/'), and the lookup starts at the calendar date with day dd, month mm and
\* year yyyy and walks backward one day at a time from there.
C38_ConfiguredKeyIsLookupDate ==
    \A r \in Runs : \A i \in ConfiguredLookups(r) :
        LET e == run[r].res[i]
        IN  /\ e.dateStr.sep = "/"
            /\ e.tried # <<>>
            /\ e.tried[1] = [y |-> e.key.c, m |-> e.key.b, d |-> e.key.a]
            /\ \A j \in 2..Len(e.tried) : e.tried[j] = PrevDay(e.tried[j - 1])

\* C39: the historical lookup never aborts the cycle: every call of
\* fetchHistoricalPrice returns a number, also for a date string that does not
\* parse to a calendar date, and a cycle that has called it ends with
\* benchmarkCache written unless the store itself failed.
C39_LookupNeverAborts ==
    \A r \in Runs :
        run[r].script \in ResolverScripts =>
            /\ \A i \in DOMAIN run[r].res : run[r].res[i].price # Undefined
            /\ run[r].cause \notin {"date", "provider"}
            /\ (run[r].pc = "done" /\ run[r].res # <<>> /\ run[r].cause # "store")
                   => /\ run[r].exit = "ok"
                      /\ run[r].bench.shape = "anchors"
                      /\ db.benchmarkCache = run[r].bench

====
